---- MODULE Spec2Model ----
(***************************************************************************)
(* rctf: an interactive shell that drives remote sessions (SSH).           *)
(*                                                                         *)
(* The module models                                                       *)
(*   - the stable-index registry        (src/src/session/stable_vec.rs),   *)
(*   - the SSH session state machine    (src/src/ssh.rs),                  *)
(*   - the orchestration loop           (src/src/session.rs),              *)
(*   - the control-mode processor       (src/src/termcraft.rs).            *)
(*                                                                         *)
(* Rust indices are 0-based; TLA+ sequences are 1-based, so slot i of a    *)
(* Vec is element i + 1 of the sequence that models it.  An Option<T> is   *)
(* a sequence of length at most one: None is << >>, Some(x) is << x >>.    *)
(***************************************************************************)
EXTENDS Integers, Sequences, FiniteSets, TLC

VARIABLES
    \* ---- the registry on its own (StableVec<T> driven by arbitrary calls)
    stable_vec,      \* the StableVec under test
    last_call,       \* the last call made on it: operation, argument, return
    \* ---- one SshSession on its own (the Session trait driven by arbitrary calls)
    ssh,             \* the SshSession
    ssh_call,        \* the last call made on it and its Result
    \* ---- one passthrough read loop on its own (key events in, channel bytes out)
    keys_in,         \* the key events the loop has received, in order
    chan_out,        \* the bytes the loop has written to the channel, in order
    key_loop,        \* running | returned
    \* ---- the line editor (get_next_line) and the command history
    history,         \* the CommandHistory the caller owns
    history_clone,   \* the scratch copy of the history a turn edits
    current_cmd,     \* the live line of the turn
    column,          \* the insertion column
    history_index,   \* the history cursor: Len(history) is the live line
    ed_pc,           \* idle | editing | panicked
    ed_ret,          \* what the last get_next_line returned
    committed,       \* every line pushed on the history so far, in order
    typed,           \* the characters typed so far
    \* ---- the Variable Store and the expansion of a text (expand)
    variables,       \* the Variable Store: name -> value
    expand_call,     \* the last call of expand and what it returned
    exp_stack,       \* the frames of a call of expand that is running, innermost last
    termcraft_call,  \* the last line read in control mode and what became of it
    \* ---- Context and the sessions it owns
    sessions,        \* Context.sessions : StableVec<Box<dyn Session>>
    named_sessions,  \* Context.named_sessions : name -> index
    pc,              \* where the orchestration is: rctf | connect | read_loop | termcraft
    session_index,   \* the local session_index of start_session / handle_session
    pending,         \* the SshSession built by start_session, not yet pushed
    result,          \* what the last start_session / resume_session returned
    read_loop_ret,   \* what the last start_read_loop returned
    print_loops,     \* the spawned print-loop (mirror) tasks that are still alive
    wire,            \* the channel writes made by the last step
    terminal,        \* the local-terminal writes made by the last step
    faults           \* the I/O failures injected so far

sv_vars  == <<stable_vec, last_call>>
ssh_vars == <<ssh, ssh_call>>
key_vars == <<keys_in, chan_out, key_loop>>
ed_vars  == <<history, history_clone, current_cmd, column, history_index, ed_pc, ed_ret,
              committed, typed>>
exp_vars == <<variables, expand_call, exp_stack, termcraft_call>>
ctx_vars == <<sessions, named_sessions, pc, session_index, pending, result,
              read_loop_ret, print_loops, wire, terminal, faults>>
vars     == <<stable_vec, last_call, ssh, ssh_call, keys_in, chan_out, key_loop,
              history, history_clone, current_cmd, column, history_index, ed_pc, ed_ret,
              committed, typed, variables, expand_call, exp_stack, termcraft_call,
              sessions, named_sessions, pc, session_index,
              pending, result, read_loop_ret, print_loops, wire, terminal, faults>>

(***************************************************************************)
(* Bounds of the model.                                                    *)
(***************************************************************************)
\* slots the registry under test may grow to
MaxSlots == 3
\* distinct items pushed on the registry under test
NumItems == 2
\* slots the session registry of the Context may grow to
MaxSessions == 2
\* I/O failures on a connected session (channel write, key stream,
\* disconnect, lost connection) injected in one behaviour
MaxFaults == 1
\* distinct chunks of output the remote end writes on each stream
NumChunks == 1
\* key events one passthrough read loop receives
MaxKeys == 2
\* characters typed into the line editor in one behaviour
MaxTyped == 3
\* lines committed by the line editor, key by key, in one behaviour
MaxTurns == 2
\* lines committed beyond the capacity of the history, turn by turn
MaxOverflow == 2
\* lines other than the usual one among the lines committed turn by turn
MaxMarks == 1
\* backslashes in front of the texts expanded
MaxSlashes == 3
\* characters of the texts expanded, the backslashes in front not counted
MaxText == 4
\* calls of expand inside one another
MaxDepth == 4
\* characters of a text expanded call by call
MaxRunText == 2

None == << >>
Some(x) == << x >>

Items == 1 .. NumItems

(***************************************************************************)
(* BinaryHeap<Reverse<usize>>: a min-priority queue.  The heap is kept as  *)
(* the ascending sequence of its elements (duplicates allowed), so peek    *)
(* and pop take the head.                                                  *)
(***************************************************************************)
\* BinaryHeap::push(Reverse(x))
HeapPush(h, x) ==
    LET below == SelectSeq(h, LAMBDA y : y <= x)
        above == SelectSeq(h, LAMBDA y : y > x)
    IN  below \o <<x>> \o above

\* BinaryHeap::peek
HeapPeek(h) == IF h = << >> THEN None ELSE Some(Head(h))

\* BinaryHeap::pop: the heap that is left
HeapPopRest(h) == IF h = << >> THEN h ELSE Tail(h)

(***************************************************************************)
(* StableVec<T>                                                            *)
(***************************************************************************)
StableVec_new == [items |-> << >>, available_indices |-> << >>]

\* a faulty variant of next_index: the freed indices are not consulted
StableVec_next_index_len(sv) == Len(sv.items)

StableVec_next_index(sv) ==
    IF HeapPeek(sv.available_indices) # None
    THEN HeapPeek(sv.available_indices)[1]
    ELSE Len(sv.items)

\* a faulty variant of push: the freed indices are ignored, the item is appended
StableVec_push_append(sv, item) ==
    [sv    |-> [sv EXCEPT !.items = Append(sv.items, Some(item))],
     index |-> Len(sv.items),
     panic |-> FALSE]

\* a faulty variant of push: the freed index that is reused stays recorded
StableVec_push_keep(sv, item) ==
    IF sv.available_indices # << >>
    THEN [sv    |-> [sv EXCEPT !.items[Head(sv.available_indices) + 1] = Some(item)],
          index |-> Head(sv.available_indices),
          panic |-> FALSE]
    ELSE [sv    |-> [sv EXCEPT !.items = Append(sv.items, Some(item))],
          index |-> Len(sv.items),
          panic |-> FALSE]

\* a faulty variant of push: the largest freed index is taken (a max-heap)
StableVec_push_largest(sv, item) ==
    IF sv.available_indices # << >>
    THEN LET n     == Len(sv.available_indices)
             index == sv.available_indices[n]
         IN  [sv    |-> [items |-> [sv.items EXCEPT ![index + 1] = Some(item)],
                         available_indices |-> SubSeq(sv.available_indices, 1, n - 1)],
              index |-> index,
              panic |-> FALSE]
    ELSE [sv    |-> [sv EXCEPT !.items = Append(sv.items, Some(item))],
          index |-> Len(sv.items),
          panic |-> FALSE]

\* push: the registry afterwards, the index returned, and whether
\* self.items[index] panicked (index out of bounds)
StableVec_push(sv, item) ==
    IF HeapPeek(sv.available_indices) # None
    THEN LET index == HeapPeek(sv.available_indices)[1]
             rest  == HeapPopRest(sv.available_indices)
         IN  IF index < Len(sv.items)
             THEN [sv    |-> [items |-> [sv.items EXCEPT ![index + 1] = Some(item)],
                              available_indices |-> rest],
                   index |-> index,
                   panic |-> FALSE]
             ELSE [sv    |-> [sv EXCEPT !.available_indices = rest],
                   index |-> index,
                   panic |-> TRUE]
    ELSE [sv    |-> [sv EXCEPT !.items = Append(sv.items, Some(item))],
          index |-> Len(sv.items),
          panic |-> FALSE]

\* a faulty variant of get: an index past the end wraps around
StableVec_get_wrapping(sv, index) ==
    IF sv.items = << >> THEN None ELSE sv.items[(index % Len(sv.items)) + 1]

\* Vec::get(index).map(Option::as_ref).flatten()
StableVec_get(sv, index) ==
    IF index < Len(sv.items) THEN sv.items[index + 1] ELSE None

StableVec_get_mut(sv, index) ==
    IF index < Len(sv.items) THEN sv.items[index + 1] ELSE None

\* a faulty variant of remove: Vec::remove, which shifts the later items down
StableVec_remove_shift(sv, index) ==
    IF index < Len(sv.items) /\ sv.items[index + 1] # None
    THEN [sv   |-> [items |-> [k \in 1 .. Len(sv.items) |->
                                  IF k < index + 1 THEN sv.items[k]
                                  ELSE IF k < Len(sv.items) THEN sv.items[k + 1]
                                  ELSE None],
                    available_indices |-> HeapPush(sv.available_indices, Len(sv.items) - 1)],
          item |-> sv.items[index + 1]]
    ELSE [sv |-> sv, item |-> None]

\* a faulty variant of remove: an empty slot is freed again
StableVec_remove_refree(sv, index) ==
    IF index < Len(sv.items)
    THEN [sv   |-> [items |-> [sv.items EXCEPT ![index + 1] = None],
                    available_indices |-> HeapPush(sv.available_indices, index)],
          item |-> sv.items[index + 1]]
    ELSE [sv |-> sv, item |-> None]

\* a faulty variant of remove: the index is freed whether or not a slot has it
StableVec_remove_unchecked(sv, index) ==
    [sv   |-> [items |-> IF index < Len(sv.items)
                         THEN [sv.items EXCEPT ![index + 1] = None]
                         ELSE sv.items,
               available_indices |-> HeapPush(sv.available_indices, index)],
     item |-> IF index < Len(sv.items) THEN sv.items[index + 1] ELSE None]

\* remove: the registry afterwards and the Option<T> returned
StableVec_remove(sv, index) ==
    IF index < Len(sv.items) /\ sv.items[index + 1] # None
    THEN [sv   |-> [items |-> [sv.items EXCEPT ![index + 1] = None],
                    available_indices |-> HeapPush(sv.available_indices, index)],
          item |-> sv.items[index + 1]]
    ELSE [sv |-> sv, item |-> None]

\* a faulty variant of From: the items are collected in reverse
StableVec_from_reversed(items) ==
    [items |-> [k \in 1 .. Len(items) |-> Some(items[Len(items) + 1 - k])],
     available_indices |-> << >>]

\* From<Collection>: every item in a slot of its own, no freed index
StableVec_from(items) ==
    [items |-> [k \in 1 .. Len(items) |-> Some(items[k])],
     available_indices |-> << >>]

\* PartialEq: the slot vectors are compared
StableVec_eq(a, b) == a.items = b.items

RECURSIVE PushAll(_)
\* the items pushed one after the other on StableVec::new()
PushAll(items) ==
    IF items = << >> THEN StableVec_new
    ELSE StableVec_push(PushAll(SubSeq(items, 1, Len(items) - 1)), items[Len(items)]).sv

\* the slots that hold an item
LiveIndices(sv) == {i \in 0 .. Len(sv.items) - 1 : sv.items[i + 1] # None}

\* the slots that are empty
EmptyIndices(sv) == {i \in 0 .. Len(sv.items) - 1 : sv.items[i + 1] = None}

Min(S) == CHOOSE x \in S : \A y \in S : x <= y

(***************************************************************************)
(* The registry on its own: any sequence of calls, any index argument.     *)
(***************************************************************************)
Call(op, arg, ret, panic) == [op |-> op, arg |-> arg, ret |-> ret, panic |-> panic]

SV_Init ==
    /\ stable_vec = StableVec_new
    /\ last_call = Call("new", 0, None, FALSE)

SV_Push(item) ==
    /\ StableVec_next_index(stable_vec) < MaxSlots
    /\ LET r == StableVec_push(stable_vec, item)
       IN  /\ stable_vec' = r.sv
           /\ last_call' = Call("push", item, Some(r.index), r.panic)

SV_Get(index) ==
    /\ stable_vec' = stable_vec
    /\ last_call' = Call("get", index, StableVec_get(stable_vec, index), FALSE)

SV_GetMut(index) ==
    /\ stable_vec' = stable_vec
    /\ last_call' = Call("get_mut", index, StableVec_get_mut(stable_vec, index), FALSE)

SV_Remove(index) ==
    LET r == StableVec_remove(stable_vec, index)
    IN  /\ stable_vec' = r.sv
        /\ last_call' = Call("remove", index, r.item, FALSE)

SV_NextIndex ==
    /\ stable_vec' = stable_vec
    /\ last_call' = Call("next_index", 0, Some(StableVec_next_index(stable_vec)), FALSE)

\* the collections a registry is built From
Collections == UNION {[1 .. n -> Items] : n \in 0 .. MaxSlots}

\* StableVec::from(items) takes the place of the registry
SV_From(items) ==
    /\ stable_vec' = StableVec_from(items)
    /\ last_call' = Call("from", items, None, FALSE)

SV_Next ==
    \/ \E item \in Items : SV_Push(item)
    \/ \E index \in 0 .. MaxSlots : SV_Get(index)
    \/ \E index \in 0 .. MaxSlots : SV_GetMut(index)
    \/ \E index \in 0 .. MaxSlots : SV_Remove(index)
    \/ SV_NextIndex

(***************************************************************************)
(* SshSession (src/src/ssh.rs)                                             *)
(*                                                                         *)
(* A session is a record.  status is "Disconnected" or "Connected"; the    *)
(* fields of Status::Connected are kept beside it:                         *)
(*   rx_exit            the buffered content of the mpsc channel (cap. 1)  *)
(*   tx_exit            the handler's sender: none | open | used | dropped *)
(*   stdout, stderr     the values held by the two watch channels          *)
(*   rx_stdout_changed, rx_stderr_changed                                  *)
(*                      whether the session's receiver has not yet seen    *)
(*                      the value of its watch channel                     *)
(*   eof_sent, disconnect_sent                                             *)
(*                      what disconnect() has sent on the transport        *)
(***************************************************************************)
Status(code) == [tag |-> "Status", code |-> code, signal |-> ""]
Signal(name) == [tag |-> "Signal", code |-> 0, signal |-> name]

\* the exit notifications the remote end may deliver
Exits == {Status(0), Status(1), Signal("TERM")}

Names == {"a", "b"}

SshSession_new(index) ==
    [status |-> "Disconnected", name |-> "", index |-> index,
     rx_exit |-> << >>, tx_exit |-> "none",
     stdout |-> << >>, stderr |-> << >>,
     rx_stdout_changed |-> FALSE, rx_stderr_changed |-> FALSE,
     eof_sent |-> FALSE, disconnect_sent |-> FALSE]

\* what can happen to connect(): client::connect fails, authenticate_password
\* fails or answers false, the channel / pty / shell request fails
ConnectOutcomes == {"ok", "connect_error", "auth_error", "auth_rejected", "channel_error"}

\* a faulty variant of connect: the status is set before the channel is opened
SshSession_connect_early(s, outcome) ==
    [session |-> [s EXCEPT !.status = IF outcome \in {"ok", "channel_error"}
                                      THEN "Connected" ELSE "Disconnected",
                           !.tx_exit = IF outcome \in {"ok", "channel_error"}
                                       THEN "open" ELSE "none"],
     ok      |-> outcome = "ok",
     error   |-> IF outcome = "ok" THEN "" ELSE outcome]

\* connect: the session afterwards and the Result
SshSession_connect(s, outcome) ==
    IF outcome = "ok"
    THEN [session |-> [s EXCEPT !.status = "Connected",
                                !.rx_exit = << >>, !.tx_exit = "open",
                                !.stdout = << >>, !.stderr = << >>,
                                !.rx_stdout_changed = FALSE,
                                !.rx_stderr_changed = FALSE,
                                !.eof_sent = FALSE, !.disconnect_sent = FALSE],
          ok      |-> TRUE,
          error   |-> ""]
    ELSE [session |-> s, ok |-> FALSE, error |-> outcome]

\* what can happen to disconnect() on a connected session
DisconnectOutcomes == {"ok", "eof_error", "disconnect_error"}

\* a faulty variant of disconnect: the status is reset before the I/O is done
SshSession_disconnect_early(s, outcome) ==
    IF s.status # "Connected"
    THEN [session |-> s, ok |-> TRUE, error |-> ""]
    ELSE [session |-> [s EXCEPT !.status = "Disconnected"],
          ok      |-> outcome = "ok",
          error   |-> IF outcome = "ok" THEN "" ELSE outcome]

\* a faulty variant of disconnect: a session that is not connected is an error
SshSession_disconnect_strict(s, outcome) ==
    IF s.status # "Connected"
    THEN [session |-> s, ok |-> FALSE, error |-> "not_connected"]
    ELSE IF outcome = "eof_error"
    THEN [session |-> s, ok |-> FALSE, error |-> outcome]
    ELSE IF outcome = "disconnect_error"
    THEN [session |-> [s EXCEPT !.eof_sent = TRUE], ok |-> FALSE, error |-> outcome]
    ELSE [session |-> [s EXCEPT !.status = "Disconnected",
                                !.eof_sent = TRUE, !.disconnect_sent = TRUE,
                                !.rx_exit = << >>, !.tx_exit = "none",
                                !.stdout = << >>, !.stderr = << >>,
                                !.rx_stdout_changed = FALSE,
                                !.rx_stderr_changed = FALSE],
          ok      |-> TRUE,
          error   |-> ""]

\* disconnect: the session afterwards and the Result
SshSession_disconnect(s, outcome) ==
    IF s.status # "Connected"
    THEN [session |-> s, ok |-> TRUE, error |-> ""]
    ELSE IF outcome = "eof_error"
    THEN [session |-> s, ok |-> FALSE, error |-> outcome]
    ELSE IF outcome = "disconnect_error"
    THEN [session |-> [s EXCEPT !.eof_sent = TRUE], ok |-> FALSE, error |-> outcome]
    ELSE [session |-> [s EXCEPT !.status = "Disconnected",
                                !.eof_sent = TRUE, !.disconnect_sent = TRUE,
                                !.rx_exit = << >>, !.tx_exit = "none",
                                !.stdout = << >>, !.stderr = << >>,
                                !.rx_stdout_changed = FALSE,
                                !.rx_stderr_changed = FALSE],
          ok      |-> TRUE,
          error   |-> ""]

\* Session::name: None for the empty name
SshSession_name(s) == IF s.name = "" THEN None ELSE Some(s.name)

(***************************************************************************)
(* start_read_loop, the exit branch of its select!                         *)
(***************************************************************************)
\* a return value of start_read_loop: Ok(SessionExit::Termcraft),
\* Ok(SessionExit::Exit) or Err (exit: the Exit an error carries), and
\* consumed: the notification this call took from rx_exit, if any
ReadLoopRet(kind, error, exit) ==
    [kind |-> kind, error |-> error, exit |-> exit, consumed |-> None]

NoReadLoopRet == ReadLoopRet("none", "", None)

\* a faulty variant: every exit status, zero or not, is a clean exit
ExitBranch_any_status(exit) ==
    IF exit = None
    THEN ReadLoopRet("Err", "exit_closed", None)
    ELSE IF exit[1].tag = "Status"
    THEN ReadLoopRet("Exit", "", None)
    ELSE ReadLoopRet("Err", "exit", exit)

\* exit = rx_exit.recv(): None when the channel is closed and empty
ExitBranch(exit) ==
    IF exit = None
    THEN ReadLoopRet("Err", "exit_closed", None)
    ELSE IF exit[1] = Status(0)
    THEN ReadLoopRet("Exit", "", None)
    ELSE ReadLoopRet("Err", "exit", exit)

(***************************************************************************)
(* start_read_loop, the key branch of its select!: the bytes a key event   *)
(* sends.  << >> stands for the arms that send nothing (continue).         *)
(***************************************************************************)
ETX == 3
EOT == 4
BACKSPACE == 8

\* the byte of a character key (c as u8), for the characters of the model
CharByte(c) == CASE c = "a" -> 97 [] c = "c" -> 99 [] c = "d" -> 100 [] OTHER -> 63

KeyEvent(code, modifiers, kind) == [code |-> code, modifiers |-> modifiers, kind |-> kind]

\* a faulty variant of the match: the modifiers of a character are ignored
KeyData_any_modifier(key) ==
    IF key.kind \notin {"Press", "Repeat"} THEN << >>
    ELSE CASE key.code = "Enter"     -> <<10>>
           [] key.code = "Backspace" -> <<BACKSPACE>>
           [] key.code = "Tab"       -> <<9>>
           [] key.code = "Up"        -> <<27, 91, 65>>
           [] key.code = "Down"      -> <<27, 91, 66>>
           [] key.code = "Right"     -> <<27, 91, 67>>
           [] key.code = "Left"      -> <<27, 91, 68>>
           [] key.code = "c" /\ key.modifiers = "CONTROL" -> <<ETX>>
           [] key.code = "d" /\ key.modifiers = "CONTROL" -> <<EOT>>
           [] key.code \in {"a", "c", "d"} -> <<CharByte(key.code)>>
           [] OTHER                  -> << >>

\* the match on (code, modifiers) of a Press or Repeat event other than Esc
KeyData(key) ==
    IF key.kind \notin {"Press", "Repeat"} THEN << >>
    ELSE CASE key.code = "Enter"     -> <<10>>
           [] key.code = "Backspace" -> <<BACKSPACE>>
           [] key.code = "Tab"       -> <<9>>
           [] key.code = "Up"        -> <<27, 91, 65>>
           [] key.code = "Down"      -> <<27, 91, 66>>
           [] key.code = "Right"     -> <<27, 91, 67>>
           [] key.code = "Left"      -> <<27, 91, 68>>
           [] key.code = "c" /\ key.modifiers = "CONTROL" -> <<ETX>>
           [] key.code = "d" /\ key.modifiers = "CONTROL" -> <<EOT>>
           [] key.code \in {"a", "c", "d"} /\ key.modifiers \in {"NONE", "SHIFT"}
                                     -> <<CharByte(key.code)>>
           [] OTHER                  -> << >>

\* the key events the read loop is driven with
Keys == {KeyEvent("a", "NONE", "Press"), KeyEvent("c", "CONTROL", "Press"),
         KeyEvent("a", "ALT", "Press")}

(***************************************************************************)
(* reset_prompt and send                                                   *)
(***************************************************************************)
\* one write on the channel of the session in slot index
Write(index, data) == [index |-> index, data |-> data]

\* a faulty variant of reset_prompt: the receivers are not marked as seen
SshSession_reset_prompt_keep(s, io_ok) ==
    IF s.status # "Connected"
    THEN [session |-> s, ok |-> FALSE, error |-> "not_connected", data |-> << >>]
    ELSE IF ~io_ok
    THEN [session |-> s, ok |-> FALSE, error |-> "channel_data", data |-> << >>]
    ELSE [session |-> s, ok |-> TRUE, error |-> "", data |-> << <<ETX>> >>]

\* reset_prompt: the session afterwards, the Result, the bytes written
SshSession_reset_prompt(s, io_ok) ==
    IF s.status # "Connected"
    THEN [session |-> s, ok |-> FALSE, error |-> "not_connected", data |-> << >>]
    ELSE IF ~io_ok
    THEN [session |-> s, ok |-> FALSE, error |-> "channel_data", data |-> << >>]
    ELSE [session |-> [s EXCEPT !.rx_stdout_changed = FALSE,
                                !.rx_stderr_changed = FALSE],
          ok |-> TRUE, error |-> "", data |-> << <<ETX>> >>]

\* a faulty variant of send: the status is not looked at
SshSession_send_unchecked(s, data, io_ok) ==
    IF ~io_ok
    THEN [ok |-> FALSE, error |-> "channel_data", data |-> << >>]
    ELSE [ok |-> TRUE, error |-> "", data |-> <<data>>]

\* a faulty variant of send: the last byte is not written
SshSession_send_trimmed(s, data, io_ok) ==
    IF s.status # "Connected"
    THEN [ok |-> FALSE, error |-> "not_connected", data |-> << >>]
    ELSE IF ~io_ok
    THEN [ok |-> FALSE, error |-> "channel_data", data |-> << >>]
    ELSE [ok |-> TRUE, error |-> "", data |-> <<SubSeq(data, 1, Len(data) - 1)>>]

\* send: the Result and the bytes written
SshSession_send(s, data, io_ok) ==
    IF s.status # "Connected"
    THEN [ok |-> FALSE, error |-> "not_connected", data |-> << >>]
    ELSE IF ~io_ok
    THEN [ok |-> FALSE, error |-> "channel_data", data |-> << >>]
    ELSE [ok |-> TRUE, error |-> "", data |-> <<data>>]

(***************************************************************************)
(* The print loop spawned by start_read_loop.  A task is a record: the     *)
(* slot of the session it mirrors, whether its JoinHandle is still held    *)
(* (attached) and whether its two cloned receivers have an unseen value.   *)
(* Detached tasks with the same fields are one element of the set.         *)
(***************************************************************************)
\* tokio::spawn of the print loop, with clones of the session's receivers
SpawnPrintLoop(s, index) ==
    [session |-> index, attached |-> TRUE,
     stdout_changed |-> s.rx_stdout_changed,
     stderr_changed |-> s.rx_stderr_changed]

\* print_loop_handle.abort(); print_loop_handle.await
AbortPrintLoop(tasks) == {t \in tasks : ~t.attached}

\* the JoinHandle is dropped without abort: the task is detached and runs on
DropPrintLoopHandle(tasks) == {[t EXCEPT !.attached = FALSE] : t \in tasks}

\* the session is dropped: its watch senders go with the connection, and the
\* print loops that still mirror it break out of their loop
ClosePrintLoops(tasks, index) == {t \in tasks : t.session # index}

\* one write to the local terminal: the stream, the bytes, and whether the
\* JoinHandle of the writing task was still held
TermWrite(stream, data, attached) ==
    [stream |-> stream, data |-> data, attached |-> attached]

(***************************************************************************)
(* Context (src/src/session.rs, src/src/termcraft.rs)                      *)
(***************************************************************************)
\* the Result of start_session / resume_session
Res(ok, error, exit) == [ok |-> ok, error |-> error, exit |-> exit]
NoResult == [ok |-> TRUE, error |-> "pending", exit |-> None]
Ok == Res(TRUE, "", None)
Err(error) == Res(FALSE, error, None)

\* *self.sessions.get_mut(index) = s
SetSession(sv, index, s) == [sv EXCEPT !.items[index + 1] = Some(s)]

\* HashMap::insert
MapInsert(m, name, index) ==
    [n \in DOMAIN m \cup {name} |-> IF n = name THEN index ELSE m[n]]

\* HashMap::remove
MapRemove(m, name) == [n \in DOMAIN m \ {name} |-> m[n]]

\* a session selection of resume_session
Index(index) == [kind |-> "Index", index |-> index, name |-> ""]
Name(name) == [kind |-> "Name", index |-> 0, name |-> name]

\* sessions.iter().flatten(): the live sessions in slot order
Flatten(sv) == SelectSeq(sv.items, LAMBDA slot : slot # None)

\* the session index resume_session computes: Some(index), or None when no
\* session has the name
ResolveSelection(sv, sel) ==
    IF sel.kind = "Index"
    THEN Some(sel.index)
    ELSE LET live == Flatten(sv)
             hits == {k \in 1 .. Len(live) : SshSession_name(live[k][1]) = Some(sel.name)}
         IN  IF hits = {} THEN None ELSE Some(Min(hits) - 1)

\* the top of handle_session's loop: get_mut(session_index), then the entry of
\* start_read_loop up to the spawn of the print loop
HandleSessionTop(sv, tasks, index) ==
    IF StableVec_get_mut(sv, index) = None
    THEN [pc |-> "rctf", result |-> Err("no_session_index"), print_loops |-> tasks]
    ELSE IF StableVec_get_mut(sv, index)[1].status # "Connected"
    THEN [pc |-> "rctf", result |-> Err("not_connected"), print_loops |-> tasks]
    ELSE [pc |-> "read_loop", result |-> NoResult,
          print_loops |-> tasks \cup {SpawnPrintLoop(StableVec_get_mut(sv, index)[1], index)}]

Ctx_Init ==
    /\ sessions = StableVec_new
    /\ named_sessions = [n \in {} |-> 0]
    /\ pc = "rctf"
    /\ session_index = 0
    /\ pending = None
    /\ result = NoResult
    /\ read_loop_ret = NoReadLoopRet
    /\ print_loops = {}
    /\ wire = << >>
    /\ terminal = << >>
    /\ faults = 0

\* the session the orchestration loop is driving
Current == StableVec_get(sessions, session_index)[1]

\* start_session up to the await of connect
StartSession(max_slots) ==
    /\ pc = "rctf"
    /\ StableVec_next_index(sessions) < max_slots
    /\ session_index' = StableVec_next_index(sessions)
    /\ pending' = Some(SshSession_new(StableVec_next_index(sessions)))
    /\ pc' = "connect"
    /\ result' = NoResult
    /\ read_loop_ret' = NoReadLoopRet
    /\ wire' = << >>
    /\ terminal' = << >>
    /\ UNCHANGED <<sessions, named_sessions, print_loops, faults>>

\* a faulty variant: the session is pushed whatever connect returned
ConnectFailed_push(error) ==
    /\ sessions' = StableVec_push(sessions, pending[1]).sv
    /\ result' = Err(error)
    /\ pc' = "rctf"
    /\ pending' = None
    /\ UNCHANGED <<print_loops>>

\* session.connect().await? with an Err: start_session returns it
ConnectFailed(error) ==
    /\ result' = Err(error)
    /\ pc' = "rctf"
    /\ pending' = None
    /\ UNCHANGED <<sessions, print_loops>>

\* the rest of start_session: connect, push, handle_session
Connect(outcome) ==
    /\ pc = "connect"
    /\ LET c == SshSession_connect(pending[1], outcome)
       IN  IF c.ok
           THEN LET r   == StableVec_push(sessions, c.session)
                    top == HandleSessionTop(r.sv, print_loops, session_index)
                IN  /\ sessions' = r.sv
                    /\ pc' = top.pc
                    /\ result' = top.result
                    /\ print_loops' = top.print_loops
                    /\ pending' = None
           ELSE ConnectFailed(c.error)
    /\ read_loop_ret' = NoReadLoopRet
    /\ wire' = << >>
    /\ terminal' = << >>
    /\ UNCHANGED <<named_sessions, session_index, faults>>

\* resume_session
ResumeSession(sel) ==
    /\ pc = "rctf"
    /\ LET found == ResolveSelection(sessions, sel)
       IN  IF found = None
           THEN /\ result' = Err("no_session_name")
                /\ UNCHANGED <<pc, session_index, print_loops>>
           ELSE LET top == HandleSessionTop(sessions, print_loops, found[1])
                IN  /\ session_index' = found[1]
                    /\ pc' = top.pc
                    /\ result' = top.result
                    /\ print_loops' = top.print_loops
    /\ read_loop_ret' = NoReadLoopRet
    /\ wire' = << >>
    /\ terminal' = << >>
    /\ UNCHANGED <<sessions, named_sessions, pending, faults>>

(***************************************************************************)
(* handle_session while start_read_loop runs (pc = "read_loop")            *)
(***************************************************************************)
\* a faulty variant of the Esc arm: the session is closed on the way out
EscArm_disconnect(s) == SshSession_disconnect(s, "ok").session

\* a faulty variant of the Esc arm: the exit channel is emptied on the way out
EscArm_drain(s) == [s EXCEPT !.rx_exit = << >>]

\* the Esc arm of start_read_loop: what it does to the session (nothing)
EscArm(s) == s

\* Esc: start_read_loop returns Ok(Termcraft); handle_session enters
\* start_termcraft, which bails when the session is gone
KeyEsc ==
    /\ pc = "read_loop"
    /\ read_loop_ret' = ReadLoopRet("Termcraft", "", None)
    /\ print_loops' = AbortPrintLoop(print_loops)
    /\ sessions' = SetSession(sessions, session_index, EscArm(Current))
    /\ IF StableVec_get(sessions', session_index) = None
       THEN pc' = "rctf" /\ result' = Err("no_session_index")
       ELSE pc' = "termcraft" /\ result' = NoResult
    /\ wire' = << >>
    /\ terminal' = << >>
    /\ UNCHANGED <<named_sessions, session_index, pending, faults>>

\* a key event other than Esc: its bytes are written to the channel, or the
\* write fails and the ? returns the error out of start_read_loop and out of
\* handle_session, past the abort of the print loop
KeyPress(key, io_ok) ==
    /\ pc = "read_loop"
    /\ ~io_ok => faults < MaxFaults /\ KeyData(key) # << >>
    /\ IF KeyData(key) = << >>
       THEN /\ wire' = << >>
            /\ UNCHANGED <<pc, result, read_loop_ret, print_loops, faults>>
       ELSE IF io_ok
       THEN /\ wire' = <<Write(session_index, KeyData(key))>>
            /\ UNCHANGED <<pc, result, read_loop_ret, print_loops, faults>>
       ELSE /\ wire' = << >>
            /\ read_loop_ret' = ReadLoopRet("Err", "channel_data", None)
            /\ print_loops' = DropPrintLoopHandle(print_loops)
            /\ result' = Err("channel_data")
            /\ pc' = "rctf"
            /\ faults' = faults + 1
    /\ terminal' = << >>
    /\ UNCHANGED <<sessions, named_sessions, session_index, pending>>

\* the key-event stream ends (bail!) or yields an error (event?)
EventsError ==
    /\ pc = "read_loop"
    /\ faults < MaxFaults
    /\ faults' = faults + 1
    /\ read_loop_ret' = ReadLoopRet("Err", "events", None)
    /\ print_loops' = DropPrintLoopHandle(print_loops)
    /\ result' = Err("events")
    /\ pc' = "rctf"
    /\ wire' = << >>
    /\ terminal' = << >>
    /\ UNCHANGED <<sessions, named_sessions, session_index, pending>>

\* SessionExit::Exit in handle_session: disconnect, remove, forget the name
SessionExitArm(sv, names, index, outcome) ==
    LET d == SshSession_disconnect(StableVec_get_mut(sv, index)[1], outcome)
    IN  IF ~d.ok
        THEN [sessions |-> SetSession(sv, index, d.session),
              named_sessions |-> names,
              removed |-> FALSE,
              result |-> Err(d.error)]
        ELSE [sessions |-> StableVec_remove(SetSession(sv, index, d.session), index).sv,
              removed |-> TRUE,
              named_sessions |-> IF SshSession_name(d.session) # None
                                 THEN MapRemove(names, d.session.name)
                                 ELSE names,
              result |-> Ok]

\* the writes disconnect() makes on the transport
DisconnectWrites(index, outcome) ==
    IF outcome = "eof_error" THEN << >>
    ELSE IF outcome = "disconnect_error" THEN <<Write(index, "eof")>>
    ELSE <<Write(index, "eof"), Write(index, "disconnect")>>

\* rx_exit.recv() is ready: start_read_loop returns through the abort of the
\* print loop with Ok(Exit) or an error; handle_session then runs the Exit arm
\* or returns the error with ?
ExitRecv(outcome) ==
    /\ pc = "read_loop"
    /\ \/ Current.rx_exit # << >>
       \/ Current.tx_exit = "dropped"
    /\ LET exit == IF Current.rx_exit # << >> THEN Some(Head(Current.rx_exit)) ELSE None
           ret  == ExitBranch(exit)
           sv   == SetSession(sessions, session_index, [Current EXCEPT !.rx_exit = << >>])
       IN  /\ read_loop_ret' = [ret EXCEPT !.consumed = exit]
           /\ IF ret.kind = "Exit"
              THEN /\ outcome # "ok" => faults < MaxFaults
                   /\ faults' = IF outcome = "ok" THEN faults ELSE faults + 1
                   /\ LET arm == SessionExitArm(sv, named_sessions, session_index, outcome)
                      IN  /\ sessions' = arm.sessions
                          /\ named_sessions' = arm.named_sessions
                          /\ result' = arm.result
                          /\ print_loops' =
                                 IF arm.removed
                                 THEN ClosePrintLoops(AbortPrintLoop(print_loops), session_index)
                                 ELSE AbortPrintLoop(print_loops)
                   /\ wire' = DisconnectWrites(session_index, outcome)
              ELSE /\ outcome = "ok"
                   /\ sessions' = sv
                   /\ print_loops' = AbortPrintLoop(print_loops)
                   /\ result' = Res(FALSE, ret.error, ret.exit)
                   /\ wire' = << >>
                   /\ UNCHANGED <<named_sessions, faults>>
    /\ pc' = "rctf"
    /\ terminal' = << >>
    /\ UNCHANGED <<session_index, pending>>

(***************************************************************************)
(* The remote end (the russh Handler, src/src/ssh/handler.rs)              *)
(***************************************************************************)
\* the sessions of the registry that are connected
ConnectedIndices == {i \in LiveIndices(sessions) : sessions.items[i + 1][1].status = "Connected"}

\* exit_status / exit_signal: the one notification is sent (take().send())
HandlerExit(s, exit) == [s EXCEPT !.rx_exit = <<exit>>, !.tx_exit = "used"]

\* data: tx_stdout.send(bytes)
HandlerData(s, chunk) == [s EXCEPT !.stdout = chunk, !.rx_stdout_changed = TRUE]

\* extended_data: tx_stderr.send(bytes)
HandlerExtendedData(s, chunk) == [s EXCEPT !.stderr = chunk, !.rx_stderr_changed = TRUE]

\* the remote process of the session in slot index exits
RemoteExit(index, exit) ==
    /\ index \in ConnectedIndices
    /\ sessions.items[index + 1][1].tx_exit = "open"
    /\ sessions' = SetSession(sessions, index, HandlerExit(sessions.items[index + 1][1], exit))
    /\ UNCHANGED <<named_sessions, pc, session_index, pending, result, read_loop_ret,
                   print_loops, wire, terminal, faults>>

\* the connection is lost: the handler and its senders are dropped
ConnectionLost(index) ==
    /\ index \in ConnectedIndices
    /\ sessions.items[index + 1][1].tx_exit \in {"open", "used"}
    /\ faults < MaxFaults
    /\ faults' = faults + 1
    /\ sessions' = SetSession(sessions, index,
                     [sessions.items[index + 1][1] EXCEPT !.tx_exit = "dropped"])
    /\ UNCHANGED <<named_sessions, pc, session_index, pending, result, read_loop_ret,
                   print_loops, wire, terminal>>

\* the chunks of output the remote end writes
StdoutChunks == {<<"out", k>> : k \in 1 .. NumChunks}
StderrChunks == {<<"err", k>> : k \in 1 .. NumChunks}

\* every receiver of the session's stdout watch channel has a value to see
MarkStdout(tasks, index) ==
    {IF t.session = index THEN [t EXCEPT !.stdout_changed = TRUE] ELSE t : t \in tasks}

MarkStderr(tasks, index) ==
    {IF t.session = index THEN [t EXCEPT !.stderr_changed = TRUE] ELSE t : t \in tasks}

\* the remote end writes a chunk on stdout
RemoteStdout(index, chunk) ==
    /\ index \in ConnectedIndices
    /\ sessions.items[index + 1][1].tx_exit \in {"open", "used"}
    /\ sessions' = SetSession(sessions, index, HandlerData(sessions.items[index + 1][1], chunk))
    /\ print_loops' = MarkStdout(print_loops, index)
    /\ UNCHANGED <<named_sessions, pc, session_index, pending, result, read_loop_ret,
                   wire, terminal, faults>>

\* the remote end writes a chunk on stderr
RemoteStderr(index, chunk) ==
    /\ index \in ConnectedIndices
    /\ sessions.items[index + 1][1].tx_exit \in {"open", "used"}
    /\ sessions' = SetSession(sessions, index,
                     HandlerExtendedData(sessions.items[index + 1][1], chunk))
    /\ print_loops' = MarkStderr(print_loops, index)
    /\ UNCHANGED <<named_sessions, pc, session_index, pending, result, read_loop_ret,
                   wire, terminal, faults>>

(***************************************************************************)
(* The print loop's select!                                                *)
(***************************************************************************)
\* rx_stdout.changed() is ready: the value is written to the local stdout
PrintLoopStdout(t) ==
    /\ t \in print_loops
    /\ t.stdout_changed
    /\ terminal' = <<TermWrite("stdout", sessions.items[t.session + 1][1].stdout, t.attached)>>
    /\ print_loops' = (print_loops \ {t}) \cup {[t EXCEPT !.stdout_changed = FALSE]}
    /\ UNCHANGED <<sessions, named_sessions, pc, session_index, pending, result,
                   read_loop_ret, wire, faults>>

\* rx_stderr.changed() is ready: rx_stdout.borrow_and_update() is written to
\* the local stderr
PrintLoopStderr(t) ==
    /\ t \in print_loops
    /\ t.stderr_changed
    /\ terminal' = <<TermWrite("stderr", sessions.items[t.session + 1][1].stdout, t.attached)>>
    /\ print_loops' = (print_loops \ {t}) \cup {[t EXCEPT !.stdout_changed = FALSE,
                                                          !.stderr_changed = FALSE]}
    /\ UNCHANGED <<sessions, named_sessions, pc, session_index, pending, result,
                   read_loop_ret, wire, faults>>

\* changed() yields Err (the senders are gone, nothing is left to see): break
PrintLoopClosed(t) ==
    /\ t \in print_loops
    /\ ~t.stdout_changed /\ ~t.stderr_changed
    /\ sessions.items[t.session + 1][1].tx_exit = "dropped"
    /\ print_loops' = print_loops \ {t}
    /\ UNCHANGED <<sessions, named_sessions, pc, session_index, pending, result,
                   read_loop_ret, wire, terminal, faults>>

\* the print-loop tasks there can be
PrintLoops == [session : 0 .. MaxSessions - 1, attached : BOOLEAN,
               stdout_changed : BOOLEAN, stderr_changed : BOOLEAN]

(***************************************************************************)
(* start_termcraft (pc = "termcraft") and what handle_session does with    *)
(* its response                                                            *)
(***************************************************************************)
\* the texts printf is given
Cmds == {"ls"}

\* a faulty variant of Background: the session is disconnected on the way out
TermcraftBg_disconnect ==
    /\ pc = "termcraft"
    /\ pc' = "rctf"
    /\ result' = Ok
    /\ sessions' = SetSession(sessions, session_index,
                              SshSession_disconnect(Current, "ok").session)
    /\ wire' = DisconnectWrites(session_index, "ok")
    /\ terminal' = << >>
    /\ UNCHANGED <<named_sessions, session_index, pending, read_loop_ret,
                   print_loops, faults>>

\* TermcraftCommands::Bg: Background, handle_session breaks
TermcraftBg ==
    /\ pc = "termcraft"
    /\ pc' = "rctf"
    /\ result' = Ok
    /\ wire' = << >>
    /\ terminal' = << >>
    /\ UNCHANGED <<sessions, named_sessions, session_index, pending, read_loop_ret,
                   print_loops, faults>>

\* TermcraftCommands::Name with a name
TermcraftName(name) ==
    /\ pc = "termcraft"
    /\ sessions' = SetSession(sessions, session_index, [Current EXCEPT !.name = name])
    /\ named_sessions' = MapInsert(named_sessions, name, session_index)
    /\ wire' = << >>
    /\ terminal' = << >>
    /\ UNCHANGED <<pc, session_index, pending, result, read_loop_ret, print_loops, faults>>

\* the Cmd and Exit responses: reset_prompt, for Cmd send(cmd + "\n"), continue
AfterTermcraft(is_cmd, cmd, reset_ok, send_ok) ==
    /\ pc = "termcraft"
    /\ ~(reset_ok /\ send_ok) => faults < MaxFaults
    /\ faults' = IF reset_ok /\ send_ok THEN faults ELSE faults + 1
    /\ LET r  == SshSession_reset_prompt(Current, reset_ok)
           sv == SetSession(sessions, session_index, r.session)
           w1 == [k \in 1 .. Len(r.data) |-> Write(session_index, r.data[k])]
       IN  /\ sessions' = sv
           /\ IF ~r.ok
              THEN /\ send_ok
                   /\ pc' = "rctf"
                   /\ result' = Err(r.error)
                   /\ wire' = w1
                   /\ UNCHANGED print_loops
              ELSE LET t   == IF is_cmd
                              THEN SshSession_send(r.session, <<cmd, "\n">>, send_ok)
                              ELSE [ok |-> TRUE, error |-> "", data |-> << >>]
                       w2  == [k \in 1 .. Len(t.data) |-> Write(session_index, t.data[k])]
                       top == HandleSessionTop(sv, print_loops, session_index)
                   IN  /\ ~is_cmd => send_ok
                       /\ wire' = w1 \o w2
                       /\ IF ~t.ok
                          THEN /\ pc' = "rctf"
                               /\ result' = Err(t.error)
                               /\ UNCHANGED print_loops
                          ELSE /\ pc' = top.pc
                               /\ result' = top.result
                               /\ print_loops' = top.print_loops
    /\ read_loop_ret' = NoReadLoopRet
    /\ terminal' = << >>
    /\ UNCHANGED <<named_sessions, session_index, pending>>

\* TermcraftCommands::Printf: TermcraftResponse::Cmd
TermcraftCmd(cmd, reset_ok, send_ok) == AfterTermcraft(TRUE, cmd, reset_ok, send_ok)

\* Commands::Exit: TermcraftResponse::Exit
TermcraftExit(reset_ok) == AfterTermcraft(FALSE, "", reset_ok, TRUE)

(***************************************************************************)
(* One SshSession on its own: the methods of the Session trait called in   *)
(* any order, with the remote end acting in between.                       *)
(***************************************************************************)
SshCall(op, ok, error, data) == [op |-> op, ok |-> ok, error |-> error, data |-> data]

Ssh_Init ==
    /\ ssh = SshSession_new(0)
    /\ ssh_call = SshCall("new", TRUE, "", << >>)

Ssh_Connect(outcome) ==
    LET c == SshSession_connect(ssh, outcome)
    IN  /\ ssh' = c.session
        /\ ssh_call' = SshCall("connect", c.ok, c.error, << >>)

Ssh_Disconnect(outcome) ==
    LET d == SshSession_disconnect(ssh, outcome)
    IN  /\ ssh.status # "Connected" => outcome = "ok"
        /\ ssh' = d.session
        /\ ssh_call' = SshCall("disconnect", d.ok, d.error,
                               IF ssh.status = "Connected"
                               THEN [k \in 1 .. Len(DisconnectWrites(0, outcome)) |->
                                        DisconnectWrites(0, outcome)[k].data]
                               ELSE << >>)

Ssh_Send(data, io_ok) ==
    LET t == SshSession_send(ssh, data, io_ok)
    IN  /\ ssh.status # "Connected" => io_ok
        /\ ssh' = ssh
        /\ ssh_call' = SshCall("send", t.ok, t.error, t.data)

Ssh_ResetPrompt(io_ok) ==
    LET r == SshSession_reset_prompt(ssh, io_ok)
    IN  /\ ssh.status # "Connected" => io_ok
        /\ ssh' = r.session
        /\ ssh_call' = SshCall("reset_prompt", r.ok, r.error, r.data)

Ssh_RemoteExit(exit) ==
    /\ ssh.status = "Connected"
    /\ ssh.tx_exit = "open"
    /\ ssh' = HandlerExit(ssh, exit)
    /\ ssh_call' = SshCall("handler_exit", TRUE, "", << >>)

Ssh_RemoteStdout(chunk) ==
    /\ ssh.status = "Connected"
    /\ ssh' = HandlerData(ssh, chunk)
    /\ ssh_call' = SshCall("handler_data", TRUE, "", << >>)

Ssh_RemoteStderr(chunk) ==
    /\ ssh.status = "Connected"
    /\ ssh' = HandlerExtendedData(ssh, chunk)
    /\ ssh_call' = SshCall("handler_extended_data", TRUE, "", << >>)

\* the byte strings send is called with
Payloads == {<<cmd, "\n">> : cmd \in Cmds} \cup {<<EOT>>, << >>}

Ssh_Next ==
    \/ \E outcome \in ConnectOutcomes : Ssh_Connect(outcome)
    \/ \E outcome \in DisconnectOutcomes : Ssh_Disconnect(outcome)
    \/ \E data \in Payloads, io_ok \in BOOLEAN : Ssh_Send(data, io_ok)
    \/ \E io_ok \in BOOLEAN : Ssh_ResetPrompt(io_ok)
    \/ \E exit \in Exits : Ssh_RemoteExit(exit)
    \/ \E chunk \in StdoutChunks : Ssh_RemoteStdout(chunk)
    \/ \E chunk \in StderrChunks : Ssh_RemoteStderr(chunk)

(***************************************************************************)
(* The specifications                                                      *)
(***************************************************************************)
\* the variables of the components checked on their own
(***************************************************************************)
(* One passthrough read loop on its own: the key branch of the select! of  *)
(* start_read_loop, iteration after iteration, until Esc.                  *)
(***************************************************************************)
KeyCodes == {"Enter", "Backspace", "Tab", "Up", "Down", "Right", "Left",
             "a", "c", "d", "Esc", "F1"}
KeyModifiers == {"NONE", "SHIFT", "CONTROL", "ALT"}
KeyKinds == {"Press", "Repeat", "Release"}

\* every key event of the model
KeyEvents == [code : KeyCodes, modifiers : KeyModifiers, kind : KeyKinds]

\* the key events the loop on its own is driven with: every key code
\* unmodified, the characters under each modifier, an arrow and Enter under a
\* modifier, a repeat and releases
ReadKeys ==
    {KeyEvent(code, "NONE", "Press") : code \in KeyCodes \ {"Esc"}}
      \cup {KeyEvent(code, m, "Press") : code \in {"c", "d"}, m \in KeyModifiers}
      \cup {KeyEvent("a", "SHIFT", "Press"), KeyEvent("Up", "SHIFT", "Press"),
            KeyEvent("Enter", "CONTROL", "Press"), KeyEvent("Left", "NONE", "Repeat"),
            KeyEvent("a", "NONE", "Release"), KeyEvent("Esc", "NONE", "Release")}

Key_Init ==
    /\ keys_in = << >>
    /\ chan_out = << >>
    /\ key_loop = "running"

\* one iteration of the loop on a key event other than a pressed Esc: the
\* bytes of the match, if any, are written by channel.data
Key_Event(key) ==
    /\ key_loop = "running"
    /\ Len(keys_in) < MaxKeys
    /\ keys_in' = Append(keys_in, key)
    /\ chan_out' = chan_out \o KeyData(key)
    /\ UNCHANGED key_loop

\* a pressed or repeated Esc: break Ok(SessionExit::Termcraft)
Key_Esc(key) ==
    /\ key_loop = "running"
    /\ key.code = "Esc" /\ key.kind \in {"Press", "Repeat"}
    /\ keys_in' = Append(keys_in, key)
    /\ UNCHANGED chan_out
    /\ key_loop' = "returned"

Key_Next ==
    \/ \E key \in ReadKeys : Key_Event(key)
    \/ \E m \in KeyModifiers : Key_Esc(KeyEvent("Esc", m, "Press"))

(***************************************************************************)
(* The line editor: get_next_line (src/src/input.rs).  A String is the     *)
(* sequence of its characters.  The locals of a turn are a record; the     *)
(* buffer being edited, cmd, is the live line when the history cursor is   *)
(* at the history length and otherwise the entry of the scratch copy the   *)
(* cursor is at.                                                           *)
(***************************************************************************)
MAX_HISTORY_SIZE == 100

\* the characters typed: a character of one byte and one of two bytes
Chars == {"a", "e_acute"}

\* the UTF-8 encoding of a character: a String is the sequence of its bytes
Utf8(c) == IF c = "e_acute" THEN <<"0xC3", "0xA9">> ELSE <<c>>

\* the bytes that continue a character
ContinuationBytes == {"0xA9"}

\* str::is_char_boundary(idx)
IsCharBoundary(str, idx) ==
    \/ idx = 0
    \/ idx = Len(str)
    \/ idx < Len(str) /\ str[idx + 1] \notin ContinuationBytes

RECURSIVE CharEnd(_, _)
\* the index of the last byte of the character whose bytes reach index i
CharEnd(str, i) ==
    IF i < Len(str) /\ str[i + 1] \in ContinuationBytes THEN CharEnd(str, i + 1) ELSE i

\* String::insert(column, c), on a character boundary
StrInsert(str, col, c) == SubSeq(str, 1, col) \o Utf8(c) \o SubSeq(str, col + 1, Len(str))

\* String::remove(column), on a character boundary before the end: the
\* character that starts there is removed
StrRemove(str, col) ==
    SubSeq(str, 1, col) \o SubSeq(str, CharEnd(str, col + 1) + 1, Len(str))

\* the panic of String::insert and String::remove off a character boundary
EdPanic == [panicked |-> TRUE]
Panicked(ed) == "panicked" \in DOMAIN ed

\* the locals of get_next_line on entry
EdLocals(h) ==
    [history_clone |-> h, current_cmd |-> << >>, column |-> 0, history_index |-> Len(h)]

\* the locals of the turn in progress
Editor ==
    [history_clone |-> history_clone, current_cmd |-> current_cmd, column |-> column,
     history_index |-> history_index]

\* history_len: the scratch copy is as long as the history
EdHistoryLen(ed) == Len(ed.history_clone)

\* the buffer cmd refers to
EdCmd(ed) ==
    IF ed.history_index = EdHistoryLen(ed)
    THEN ed.current_cmd
    ELSE ed.history_clone[ed.history_index + 1]

\* the locals once the buffer cmd refers to is str
EdSetCmd(ed, str) ==
    IF ed.history_index = EdHistoryLen(ed)
    THEN [ed EXCEPT !.current_cmd = str]
    ELSE [ed EXCEPT !.history_clone[ed.history_index + 1] = str]

Cmd == EdCmd(Editor)

\* a faulty variant of Backspace: column 0 is not looked at
KeyBackspace_unchecked(ed) ==
    [EdSetCmd(ed, StrRemove(EdCmd(ed), ed.column - 1)) EXCEPT !.column = ed.column - 1]

\* Backspace
KeyBackspace(ed) ==
    IF ed.column = 0
    THEN ed
    ELSE IF ~IsCharBoundary(EdCmd(ed), ed.column - 1)
    THEN EdPanic
    ELSE [EdSetCmd(ed, StrRemove(EdCmd(ed), ed.column - 1)) EXCEPT !.column = ed.column - 1]

\* Delete
KeyDelete(ed) ==
    IF ed.column = Len(EdCmd(ed))
    THEN ed
    ELSE IF ~IsCharBoundary(EdCmd(ed), ed.column)
    THEN EdPanic
    ELSE EdSetCmd(ed, StrRemove(EdCmd(ed), ed.column))

\* a faulty variant of Up: the oldest entry is not looked at
KeyUp_unchecked(ed) ==
    [ed EXCEPT !.history_index = ed.history_index - 1, !.column = 0]

\* a faulty variant of Up: the live line is not put aside
KeyUp_forget(ed) ==
    IF ed.history_index = 0
    THEN ed
    ELSE [ed EXCEPT !.current_cmd = << >>,
                    !.history_index = ed.history_index - 1,
                    !.column = Len(ed.history_clone[ed.history_index])]

\* Up
KeyUp(ed) ==
    IF ed.history_index = 0
    THEN ed
    ELSE [ed EXCEPT !.current_cmd = IF ed.history_index = EdHistoryLen(ed)
                                    THEN EdCmd(ed) ELSE @,
                    !.history_index = ed.history_index - 1,
                    !.column = Len(ed.history_clone[ed.history_index])]

\* Down
KeyDown(ed) ==
    IF ed.history_index = EdHistoryLen(ed)
    THEN ed
    ELSE LET moved == [ed EXCEPT !.history_index = ed.history_index + 1]
         IN  [moved EXCEPT !.column = Len(EdCmd(moved))]

\* Left
KeyLeft(ed) == IF ed.column = 0 THEN ed ELSE [ed EXCEPT !.column = ed.column - 1]

\* a faulty variant of Right: the end of the buffer is not looked at
KeyRight_unchecked(ed) == [ed EXCEPT !.column = ed.column + 1]

\* Right
KeyRight(ed) ==
    IF ed.column = Len(EdCmd(ed)) THEN ed ELSE [ed EXCEPT !.column = ed.column + 1]

\* a character with no modifier or with Shift
KeyChar(ed, c) ==
    IF ~IsCharBoundary(EdCmd(ed), ed.column)
    THEN EdPanic
    ELSE [EdSetCmd(ed, StrInsert(EdCmd(ed), ed.column, c)) EXCEPT !.column = ed.column + 1]

RECURSIVE PopFrontWhileOver(_, _)
\* while history.len() > max { history.pop_front(); }
PopFrontWhileOver(h, max) ==
    IF Len(h) > max THEN PopFrontWhileOver(Tail(h), max) ELSE h

\* a faulty variant of the commit: at capacity the newest line is dropped
HistoryPush_drop_newest(h, line) ==
    IF Len(h) >= MAX_HISTORY_SIZE THEN h ELSE Append(h, line)

\* history.push_back(cmd.clone()) and the eviction loop
HistoryPush(h, line) == PopFrontWhileOver(Append(h, line), MAX_HISTORY_SIZE)

\* the return values of get_next_line: Ok(Some(line)), Ok(None), Err
EdRet(value) == [returned |-> TRUE, ok |-> TRUE, value |-> value]
EdErr == [returned |-> TRUE, ok |-> FALSE, value |-> None]
NoEdRet == [returned |-> FALSE, ok |-> TRUE, value |-> None]

\* "exit"
ExitLine == <<"e", "x", "i", "t">>

\* a faulty variant of Esc: the loop is left as Enter leaves it
EscReturn_break(h, ed) ==
    [history |-> HistoryPush(h, EdCmd(ed)), pushed |-> <<EdCmd(ed)>>,
     ret |-> EdRet(Some(ExitLine))]

\* Esc: return Ok(Some("exit"))
EscReturn(h, ed) == [history |-> h, pushed |-> << >>, ret |-> EdRet(Some(ExitLine))]

\* Ctrl-C: return Ok(None)
CtrlCReturn(h, ed) == [history |-> h, pushed |-> << >>, ret |-> EdRet(None)]

\* a faulty variant of the end of the loop: a recalled entry that was edited
\* is written back in its place
BreakReturn_write_back(h, ed) ==
    [history |-> IF ed.history_index < Len(h)
                 THEN [h EXCEPT ![ed.history_index + 1] = EdCmd(ed)]
                 ELSE HistoryPush(h, EdCmd(ed)),
     pushed |-> <<EdCmd(ed)>>,
     ret |-> EdRet(Some(EdCmd(ed)))]

\* the end of the loop: cmd is pushed on the history, the history is cut to
\* its capacity, and cmd is returned
BreakReturn(h, ed) ==
    [history |-> HistoryPush(h, EdCmd(ed)), pushed |-> <<EdCmd(ed)>>,
     ret |-> EdRet(Some(EdCmd(ed)))]

\* a failed event or a failed write to the terminal: return Err
ErrReturn(h, ed) == [history |-> h, pushed |-> << >>, ret |-> EdErr]

Ed_Init ==
    /\ history = << >>
    /\ history_clone = << >>
    /\ current_cmd = << >>
    /\ column = 0
    /\ history_index = 0
    /\ ed_pc = "idle"
    /\ ed_ret = NoEdRet
    /\ committed = << >>
    /\ typed = 0

\* the locals of the turn become ed
EdSet(ed) ==
    /\ history_clone' = ed.history_clone
    /\ current_cmd' = ed.current_cmd
    /\ column' = ed.column
    /\ history_index' = ed.history_index

\* a key that edits the line or moves in it
EdApply(ed) ==
    /\ ed_pc = "editing"
    /\ IF Panicked(ed)
       THEN /\ ed_pc' = "panicked"
            /\ UNCHANGED <<history_clone, current_cmd, column, history_index>>
       ELSE /\ EdSet(ed)
            /\ UNCHANGED ed_pc
    /\ UNCHANGED <<history, ed_ret, committed>>

\* a key other than a character
EdKey(ed) == EdApply(ed) /\ UNCHANGED typed

\* a key or an event that ends the turn
EdReturn(out) ==
    /\ ed_pc = "editing"
    /\ history' = out.history
    /\ committed' = committed \o out.pushed
    /\ ed_ret' = out.ret
    /\ ed_pc' = "idle"
    /\ UNCHANGED <<history_clone, current_cmd, column, history_index, typed>>

\* the entry of get_next_line
Ed_Start ==
    /\ ed_pc = "idle"
    /\ Len(committed) < MaxTurns
    /\ EdSet(EdLocals(history))
    /\ ed_pc' = "editing"
    /\ ed_ret' = NoEdRet
    /\ UNCHANGED <<history, committed, typed>>

Ed_Esc == EdReturn(EscReturn(history, Editor))

Ed_CtrlC == EdReturn(CtrlCReturn(history, Editor))

Ed_Enter == EdReturn(BreakReturn(history, Editor))

\* the event stream is over: the loop is left as Enter leaves it
Ed_EventsEnd == EdReturn(BreakReturn(history, Editor))

Ed_Error == EdReturn(ErrReturn(history, Editor))

Ed_Backspace == EdKey(KeyBackspace(Editor))

Ed_Delete == EdKey(KeyDelete(Editor))

Ed_Up == EdKey(KeyUp(Editor))

Ed_Down == EdKey(KeyDown(Editor))

Ed_Left == EdKey(KeyLeft(Editor))

Ed_Right == EdKey(KeyRight(Editor))

Ed_Char(c) ==
    /\ typed < MaxTyped
    /\ EdApply(KeyChar(Editor, c))
    /\ typed' = typed + 1

Ed_Next ==
    \/ Ed_Start
    \/ Ed_Esc
    \/ Ed_CtrlC
    \/ Ed_Enter
    \/ Ed_EventsEnd
    \/ Ed_Error
    \/ Ed_Backspace
    \/ Ed_Delete
    \/ Ed_Up
    \/ Ed_Down
    \/ Ed_Left
    \/ Ed_Right
    \/ \E c \in Chars : Ed_Char(c)

\* the lines committed turn by turn: the usual line and a marked one
TurnLines == {<<"a">>, <<"b">>}

\* the marked lines among lines
Marks(lines) == Len(SelectSeq(lines, LAMBDA l : l # <<"a">>))

RECURSIVE TypeLine(_, _)
\* the locals once the characters of line are typed one after the other
TypeLine(ed, line) ==
    IF line = << >> THEN ed ELSE TypeLine(KeyChar(ed, Head(line)), Tail(line))

\* a whole get_next_line in which line is typed on the live line and Enter is
\* pressed
Ed_Turn(line) ==
    LET ed  == TypeLine(EdLocals(history), line)
        out == BreakReturn(history, ed)
    IN  /\ ed_pc = "idle"
        /\ Len(committed) < MAX_HISTORY_SIZE + MaxOverflow
        /\ line # <<"a">> => Marks(committed) < MaxMarks
        /\ EdSet(ed)
        /\ history' = out.history
        /\ committed' = committed \o out.pushed
        /\ ed_ret' = out.ret
        /\ UNCHANGED <<ed_pc, typed>>

(***************************************************************************)
(* The Variable Expansion Engine: Context::expand (src/src/input.rs) and   *)
(* the var command (src/src/commands.rs).  A text is the sequence of its   *)
(* characters; the Variable Store is a function from names to values.      *)
(***************************************************************************)
BS == "\\"

\* [A-Za-z]
Letters == {"x", "n"}

\* \w
WordChars == Letters \cup {"1"}

RECURSIVE ReplaceAll(_, _, _)
\* str::replace(from, to): every match, left to right, none overlapping
ReplaceAll(text, from, to) ==
    IF Len(text) < Len(from)
    THEN text
    ELSE IF SubSeq(text, 1, Len(from)) = from
         THEN to \o ReplaceAll(SubSeq(text, Len(from) + 1, Len(text)), from, to)
         ELSE <<Head(text)>> \o ReplaceAll(Tail(text), from, to)

\* the special characters: \n, \r and \t
SpecialChars(input) ==
    ReplaceAll(ReplaceAll(ReplaceAll(input, <<BS, "n">>, <<"\n">>),
                          <<BS, "r">>, <<"\r">>),
               <<BS, "t">>, <<"\t">>)

RECURSIVE DoubleBackslash_runs(_)
\* a faulty variant of the last pass: a run of backslashes becomes one
DoubleBackslash_runs(text) ==
    IF Len(text) < 2
    THEN text
    ELSE IF text[1] = BS /\ text[2] = BS
         THEN DoubleBackslash_runs(Tail(text))
         ELSE <<Head(text)>> \o DoubleBackslash_runs(Tail(text))

\* the double backslash: replace(r"\\", r"\")
DoubleBackslash(text) == ReplaceAll(text, <<BS, BS>>, <<BS>>)

RECURSIVE WordEnd(_, _)
\* \w*, greedy: the index of the last word character of the run i starts
WordEnd(text, i) ==
    IF i < Len(text) /\ text[i + 1] \in WordChars THEN WordEnd(text, i + 1) ELSE i

\* (?<!(?<!\\)\\): the character before i is not a backslash, or the one
\* before that is a backslash too
Lookbehind(text, i) ==
    ~(/\ i > 1
      /\ text[i - 1] = BS
      /\ ~(i > 2 /\ text[i - 2] = BS))

\* (?:#([A-Za-z]\w*)|#\{([A-Za-z]\w*)\}) at i: the name and the last index
\* of the match, or None
ReferenceAt(text, i) ==
    IF text[i] # "#" \/ i = Len(text)
    THEN None
    ELSE IF text[i + 1] \in Letters
         THEN Some([name |-> SubSeq(text, i + 1, WordEnd(text, i + 1)),
                    end  |-> WordEnd(text, i + 1)])
         ELSE IF /\ text[i + 1] = "{"
                 /\ i + 2 <= Len(text)
                 /\ text[i + 2] \in Letters
                 /\ WordEnd(text, i + 2) < Len(text)
                 /\ text[WordEnd(text, i + 2) + 1] = "}"
              THEN Some([name |-> SubSeq(text, i + 2, WordEnd(text, i + 2)),
                         end  |-> WordEnd(text, i + 2) + 1])
              ELSE None

\* VARIABLE_REGEX at i
MatchAt(text, i) == IF Lookbehind(text, i) THEN ReferenceAt(text, i) ELSE None

\* the results of expand: Ok(text) and the error "Variable .. is not defined."
ExpOk(out) == [ok |-> TRUE, out |-> out, error |-> None]
ExpUndefined(name) == [ok |-> FALSE, out |-> << >>, error |-> Some(name)]

\* a faulty variant of the lookup: a name that is absent has the empty value
VariablesGet_default(store, name) ==
    IF name \in DOMAIN store THEN Some(store[name]) ELSE Some(<< >>)

\* self.variables.get(variable_name)
VariablesGet(store, name) ==
    IF name \in DOMAIN store THEN Some(store[name]) ELSE None

RECURSIVE expand(_, _), ExpandVariables(_, _, _, _, _)
\* the loop over the matches of VARIABLE_REGEX, from index i on, after a
\* last match that ended at last_match, and the push of the rest of the text
ExpandVariables(store, text, i, last_match, expanded_variables) ==
    IF i > Len(text)
    THEN ExpOk(expanded_variables \o SubSeq(text, last_match + 1, Len(text)))
    ELSE LET cap == MatchAt(text, i)
         IN  IF cap = None
             THEN ExpandVariables(store, text, i + 1, last_match, expanded_variables)
             ELSE LET value == VariablesGet(store, cap[1].name)
                  IN  IF value = None
                      THEN ExpUndefined(cap[1].name)
                      ELSE LET inner == expand(store, value[1])
                           IN  IF ~inner.ok
                               THEN inner
                               ELSE ExpandVariables(store, text, cap[1].end + 1, cap[1].end,
                                        expanded_variables
                                            \o SubSeq(text, last_match + 1, i - 1)
                                            \o inner.out)

\* Context::expand
expand(store, input) ==
    LET res == ExpandVariables(store, SpecialChars(input), 1, 0, << >>)
    IN  IF res.ok THEN ExpOk(DoubleBackslash(res.out)) ELSE res

\* the names the values of names refer to
RefersTo(store, names) ==
    UNION {{MatchAt(value, i)[1].name :
                i \in {j \in 1..Len(value) : MatchAt(value, j) # None}} :
           value \in {SpecialChars(store[name]) : name \in names \cap DOMAIN store}}

RECURSIVE ReachedFrom(_, _, _)
\* the names expand looks up, at most steps calls below the one on names
ReachedFrom(store, names, steps) ==
    IF steps = 0
    THEN names
    ELSE names \cup ReachedFrom(store, RefersTo(store, names), steps - 1)

\* no value leads back to its own name: expand returns
Acyclic(store) ==
    \A name \in DOMAIN store :
        name \notin ReachedFrom(store, RefersTo(store, {name}), Cardinality(DOMAIN store))

\* the names of the Variable Store
VarNames == {<<"x">>, <<"n">>}

\* the values given to them
VarValues == {<<"1">>, <<"#", "n">>, <<BS, BS, BS, BS>>}

\* the texts expanded
Alphabet == {BS, "#", "{", "}", "x", "n"}
Slashes(k) == [i \in 1..k |-> BS]
Texts ==
    {Slashes(k) \o text : k \in 0..MaxSlashes,
                          text \in UNION {[1..len -> Alphabet] : len \in 0..MaxText}}

Exp_Init ==
    /\ variables = << >>
    /\ expand_call = [op |-> "none", input |-> << >>, res |-> ExpOk(<< >>)]
    /\ exp_stack = << >>
    /\ termcraft_call = [line |-> << >>, out |-> "none"]

\* no call of expand has been made yet
ExpIdle == expand_call.op = "none"

\* self.variables.insert(name, value)
VariablesInsert(store, name, value) ==
    [n \in DOMAIN store \cup {name} |-> IF n = name THEN value ELSE store[n]]

\* var <name> <value>
Var_Set(name, value) ==
    /\ ExpIdle
    /\ variables' = VariablesInsert(variables, name, value)
    /\ Acyclic(variables')
    /\ UNCHANGED <<expand_call, exp_stack, termcraft_call>>

Exp_Expand(input) ==
    /\ ExpIdle
    /\ expand_call' = [op |-> "expand", input |-> input, res |-> expand(variables, input)]
    /\ UNCHANGED <<variables, exp_stack, termcraft_call>>

Exp_Next ==
    \/ ExpIdle /\ \E name \in VarNames, value \in VarValues : Var_Set(name, value)
    \/ ExpIdle /\ \E input \in Texts : Exp_Expand(input)

(***************************************************************************)
(* Context::expand call by call: the frames of the calls that are running, *)
(* one step per call, return or error.                                     *)
(***************************************************************************)
\* a faulty variant of the call: the text is taken as it is, no reference
\* in it is looked for
ExpFrame_flat(name, input) ==
    [name |-> name, text |-> SpecialChars(input), pos |-> Len(SpecialChars(input)) + 1,
     last_match |-> 0, expanded_variables |-> << >>]

\* a call of expand that starts: its text after the special characters, the
\* place captures_iter is at, last_match and expanded_variables; name is the
\* variable whose value the call expands (None for the outermost call)
ExpFrame(name, input) ==
    [name |-> name, text |-> SpecialChars(input), pos |-> 1,
     last_match |-> 0, expanded_variables |-> << >>]

RECURSIVE NextMatch(_, _)
\* captures_iter: the start of the next match from index i on, or 0
NextMatch(text, i) ==
    IF i > Len(text) THEN 0
    ELSE IF MatchAt(text, i) # None THEN i ELSE NextMatch(text, i + 1)

\* the end of a call: the rest of the text is pushed and the double
\* backslashes are replaced
ExpFrameReturn(f) ==
    DoubleBackslash(f.expanded_variables \o SubSeq(f.text, f.last_match + 1, Len(f.text)))

\* the frame at a match that starts at m: the text before the match is
\* pushed and last_match moves to the end of the match
ExpFrameAtMatch(f, m) ==
    [f EXCEPT !.expanded_variables = @ \o SubSeq(f.text, f.last_match + 1, m - 1),
              !.last_match = MatchAt(f.text, m)[1].end,
              !.pos = MatchAt(f.text, m)[1].end + 1]

\* the frames but the innermost
Callers(stack) == SubSeq(stack, 1, Len(stack) - 1)

\* the values given to the variables, one of them referring to itself
RunValues == VarValues \cup {<<"#", "x">>}

\* the texts expanded call by call
RunTexts == UNION {[1..len -> Alphabet] : len \in 0..MaxRunText}

\* var <name> <value>, with any value
Run_Set(name, value) ==
    /\ ExpIdle
    /\ variables' = VariablesInsert(variables, name, value)
    /\ UNCHANGED <<expand_call, exp_stack, termcraft_call>>

\* expand(input) is called
Run_Call(input) ==
    /\ ExpIdle
    /\ expand_call' = [op |-> "running", input |-> input, res |-> ExpOk(<< >>)]
    /\ exp_stack' = <<ExpFrame(None, input)>>
    /\ UNCHANGED <<variables, termcraft_call>>

\* the innermost call runs to its next match, where it fails or calls expand
\* on the value, or to its end, where it returns to its caller
Run_Step ==
    /\ expand_call.op = "running"
    /\ LET f == exp_stack[Len(exp_stack)]
           m == NextMatch(f.text, f.pos)
       IN  IF m = 0
           THEN IF Len(exp_stack) = 1
                THEN /\ exp_stack' = << >>
                     /\ expand_call' = [expand_call EXCEPT !.op = "expand",
                                                           !.res = ExpOk(ExpFrameReturn(f))]
                ELSE /\ exp_stack' =
                            [Callers(exp_stack) EXCEPT
                                ![Len(exp_stack) - 1].expanded_variables =
                                    @ \o ExpFrameReturn(f)]
                     /\ UNCHANGED expand_call
           ELSE LET name  == MatchAt(f.text, m)[1].name
                    value == VariablesGet(variables, name)
                IN  IF value = None
                    THEN /\ exp_stack' = << >>
                         /\ expand_call' = [expand_call EXCEPT !.op = "expand",
                                                               !.res = ExpUndefined(name)]
                    ELSE /\ Len(exp_stack) < MaxDepth
                         /\ exp_stack' = Callers(exp_stack)
                                \o <<ExpFrameAtMatch(f, m), ExpFrame(Some(name), value[1])>>
                         /\ UNCHANGED expand_call
    /\ UNCHANGED <<variables, termcraft_call>>

(***************************************************************************)
(* A line read in control mode: get_next_command (src/src/input.rs) and    *)
(* start_termcraft (src/src/termcraft.rs).  A line is the sequence of its  *)
(* characters; a command word is one symbol.                               *)
(***************************************************************************)
\* the characters that end a word
Blanks == {" ", "\t", "\n"}

RECURSIVE AfterNewline(_, _)
\* the index after the first new line from i on
AfterNewline(line, i) ==
    IF i > Len(line) THEN i
    ELSE IF line[i] = "\n" THEN i + 1 ELSE AfterNewline(line, i + 1)

\* one more word in front of the words that follow, unless they are in error
ShlexCons(word, rest) == IF rest = None THEN None ELSE Some(<<word>> \o rest[1])

\* where the splitting is after the character at i: the next index, the
\* word so far, the state (blank between words, word in a word, double in
\* double quotes), whether a word ended, and the error of a backslash that
\* ends the line
ShlexAt(i, word, state, ended, error) ==
    [i |-> i, word |-> word, state |-> state, ended |-> ended, error |-> error]

\* the character at i, in double quotes
ShlexDouble(line, i, word) ==
    IF line[i] = "\""
    THEN ShlexAt(i + 1, word, "word", FALSE, FALSE)
    ELSE IF line[i] # BS
    THEN ShlexAt(i + 1, Append(word, line[i]), "double", FALSE, FALSE)
    ELSE IF i = Len(line)
    THEN ShlexAt(i + 1, word, "double", FALSE, TRUE)
    ELSE IF line[i + 1] \in {"$", "backquote", "\"", BS}
    THEN ShlexAt(i + 2, Append(word, line[i + 1]), "double", FALSE, FALSE)
    ELSE IF line[i + 1] = "\n"
    THEN ShlexAt(i + 2, word, "double", FALSE, FALSE)
    ELSE ShlexAt(i + 2, word \o <<BS, line[i + 1]>>, "double", FALSE, FALSE)

\* the character at i, outside quotes
ShlexPlain(line, i, word, state) ==
    IF line[i] \in Blanks
    THEN ShlexAt(i + 1, << >>, "blank", state = "word", FALSE)
    ELSE IF line[i] = "#" /\ state = "blank"
    THEN ShlexAt(AfterNewline(line, i), << >>, "blank", FALSE, FALSE)
    ELSE IF line[i] = "\""
    THEN ShlexAt(i + 1, word, "double", FALSE, FALSE)
    ELSE IF line[i] # BS
    THEN ShlexAt(i + 1, Append(word, line[i]), "word", FALSE, FALSE)
    ELSE IF i = Len(line)
    THEN ShlexAt(i + 1, word, state, FALSE, TRUE)
    ELSE IF line[i + 1] = "\n"
    THEN ShlexAt(i + 2, word, state, FALSE, FALSE)
    ELSE ShlexAt(i + 2, Append(word, line[i + 1]), "word", FALSE, FALSE)

RECURSIVE ShlexWords(_, _, _, _)
\* the words of the line from index i on; None on an open quote or a
\* backslash that ends the line
ShlexWords(line, i, word, state) ==
    IF i > Len(line)
    THEN IF state = "double" THEN None
         ELSE IF state = "word" THEN Some(<<word>>) ELSE Some(<< >>)
    ELSE LET at   == IF state = "double" THEN ShlexDouble(line, i, word)
                     ELSE ShlexPlain(line, i, word, state)
             rest == ShlexWords(line, at.i, at.word, at.state)
         IN  IF at.error THEN None
             ELSE IF at.ended THEN ShlexCons(word, rest) ELSE rest

\* shlex::split(&next_line)
shlex_split(line) == ShlexWords(line, 1, << >>, "blank")

\* what clap makes of the words: a command, the help text, or an error
ClapOk(kind, args) == [ok |-> TRUE, help |-> FALSE, kind |-> kind, args |-> args]
ClapErr(help) == [ok |-> FALSE, help |-> help, kind |-> "none", args |-> << >>]

\* Termcraft::try_parse_from: the subcommands of TermcraftCommands and of
\* Commands, with their aliases and their arguments
try_parse_from(args) ==
    LET name == Head(args)
        rest == Tail(args)
    IN  IF name \in {<<"bg">>, <<"background">>} /\ rest = << >>
        THEN ClapOk("Bg", rest)
        ELSE IF name = <<"name">> /\ Len(rest) <= 1
        THEN ClapOk("Name", rest)
        ELSE IF name = <<"printf">> /\ Len(rest) = 1
        THEN ClapOk("Printf", rest)
        ELSE IF name \in {<<"exit">>, <<"quit">>, <<"q">>} /\ rest = << >>
        THEN ClapOk("Exit", rest)
        ELSE IF name = <<"var">> /\ Len(rest) <= 2
        THEN ClapOk("Var", rest)
        ELSE ClapErr(name = <<"help">> /\ rest = << >>)

\* the ways one turn of the loop of get_next_command ends: continue (with
\* what was printed), Err(e), or Ok(cmd)
GncContinue(report) == [kind |-> "continue", report |-> report, cmd |-> ClapErr(FALSE)]
GncErr(report) == [kind |-> "err", report |-> report, cmd |-> ClapErr(FALSE)]
GncOk(cmd) == [kind |-> "ok", report |-> "", cmd |-> cmd]

\* one turn of the loop of get_next_command on a line get_next_line returned
get_next_command(store, next_line) ==
    LET expanded == expand(store, next_line)
    IN  IF ~expanded.ok
        THEN GncErr("undefined")
        ELSE LET args == shlex_split(expanded.out)
             IN  IF args = None
                 THEN GncContinue("invalid_quoting")
                 ELSE IF args[1] = << >>
                 THEN GncContinue("empty")
                 ELSE LET cmd == try_parse_from(args[1])
                      IN  IF cmd.ok THEN GncOk(cmd)
                          ELSE IF cmd.help THEN GncContinue("help")
                          ELSE GncErr("clap")

\* Context::parse_line: the format string goes through the Variable
\* Expansion Engine
parse_line(store, format_string) == expand(store, format_string)

\* a faulty variant of the Err arm: the error is returned with ?
ErrArm_return(report) == [pc |-> "rctf", result |-> Err(report)]

\* Err(e) => { eprintln_colored(e, Color::Red)?; continue; }
ErrArm(report) == [pc |-> "termcraft", result |-> NoResult]

\* the loop of start_termcraft goes on, or ends with a result
TermcraftGoesOn(next) ==
    /\ pc' = next.pc
    /\ result' = next.result
    /\ wire' = << >>
    /\ terminal' = << >>
    /\ UNCHANGED <<sessions, named_sessions, session_index, pending, read_loop_ret,
                   print_loops, faults>>

\* the lines typed in control mode
PrintfLine(f) == <<"printf", " ", "\"">> \o f \o <<"\"">>
PrintfFormats == {<<"l", "s">>, <<"l", "s", BS, "n">>, <<"l", "s", " ", "#", "x">>,
                  <<"#", "n">>, <<BS, "#", "x">>}
TermLines ==
    {PrintfLine(f) : f \in PrintfFormats}
        \cup {<< >>, <<"bg">>, <<"exit">>, <<"help">>, <<"bogus">>, <<"printf">>,
              <<"name">>, <<"name", " ", "a">>, <<"name", " ", "b">>,
              <<"printf", " ", "\"", "l", "s">>, <<"printf", " ", BS, "#", "x">>,
              <<"var", " ", "x", " ", "1">>, <<"var", " ", "n", " ", BS, "#", "x">>,
              <<"var", " ", "x">>}

\* one line typed at the control-mode prompt, to the point where
\* start_termcraft reads the next line or handle_session has acted on its
\* response
TermcraftLine(line) ==
    /\ pc = "termcraft"
    /\ \E got \in {get_next_command(variables, line)} :
       \E text \in {IF got.kind = "ok" /\ got.cmd.kind = "Printf"
                    THEN parse_line(variables, got.cmd.args[1])
                    ELSE ExpOk(<< >>)} :
       LET kind == IF got.kind = "ok" THEN got.cmd.kind ELSE got.kind
           args == got.cmd.args
       IN  /\ termcraft_call' =
                  [line |-> line,
                   out  |-> IF got.kind # "ok" THEN got.report
                            ELSE IF ~text.ok THEN "printf_undefined" ELSE kind]
           /\ variables' = IF kind = "Var" /\ Len(args) = 2
                           THEN VariablesInsert(variables, args[1], args[2])
                           ELSE variables
           /\ CASE kind = "continue" -> TermcraftGoesOn([pc |-> pc, result |-> result])
                [] kind = "err" -> TermcraftGoesOn(ErrArm(got.report))
                [] kind = "Bg" -> TermcraftBg
                [] kind = "Name" ->
                       IF args = << >>
                       THEN TermcraftGoesOn([pc |-> pc, result |-> result])
                       ELSE Len(args[1]) = 1 /\ TermcraftName(args[1][1])
                [] kind = "Printf" ->
                       IF text.ok
                       THEN TermcraftCmd(text.out, TRUE, TRUE)
                       ELSE TermcraftGoesOn([pc |-> pc, result |-> result])
                [] kind = "Exit" -> TermcraftExit(TRUE)
                [] kind = "Var" -> TermcraftGoesOn([pc |-> pc, result |-> result])

lib_vars == <<stable_vec, last_call, ssh, ssh_call, keys_in, chan_out, key_loop,
              history, history_clone, current_cmd, column, history_index, ed_pc, ed_ret,
              committed, typed, variables, expand_call, exp_stack, termcraft_call>>

Init == SV_Init /\ Ssh_Init /\ Key_Init /\ Ed_Init /\ Exp_Init /\ Ctx_Init

\* The shell with several sessions.  Connecting may fail; once a session is
\* connected its channel writes, its key stream and its disconnect succeed.
Next ==
    \/ StartSession(MaxSessions) /\ UNCHANGED lib_vars
    \/ (\E outcome \in ConnectOutcomes : Connect(outcome)) /\ UNCHANGED lib_vars
    \/ (\E index \in 0 .. MaxSessions : ResumeSession(Index(index))) /\ UNCHANGED lib_vars
    \/ (\E name \in Names : ResumeSession(Name(name))) /\ UNCHANGED lib_vars
    \/ KeyEsc /\ UNCHANGED lib_vars
    \/ (\E key \in Keys : KeyPress(key, TRUE)) /\ UNCHANGED lib_vars
    \/ ExitRecv("ok") /\ UNCHANGED lib_vars
    \/ (\E index \in 0 .. MaxSessions - 1, exit \in Exits : RemoteExit(index, exit))
          /\ UNCHANGED lib_vars
    \/ TermcraftBg /\ UNCHANGED lib_vars
    \/ (\E name \in Names : TermcraftName(name)) /\ UNCHANGED lib_vars
    \/ (\E cmd \in Cmds : TermcraftCmd(cmd, TRUE, TRUE)) /\ UNCHANGED lib_vars
    \/ TermcraftExit(TRUE) /\ UNCHANGED lib_vars

Spec == Init /\ [][Next]_vars

\* One session at a time, with the remote output, the print loops and the
\* I/O failures of a connected session.
SessionNext ==
    \/ StartSession(1) /\ UNCHANGED lib_vars
    \/ (\E outcome \in ConnectOutcomes : Connect(outcome)) /\ UNCHANGED lib_vars
    \/ (\E index \in 0 .. 1 : ResumeSession(Index(index))) /\ UNCHANGED lib_vars
    \/ (\E name \in Names : ResumeSession(Name(name))) /\ UNCHANGED lib_vars
    \/ KeyEsc /\ UNCHANGED lib_vars
    \/ (\E key \in Keys, io_ok \in BOOLEAN : KeyPress(key, io_ok)) /\ UNCHANGED lib_vars
    \/ EventsError /\ UNCHANGED lib_vars
    \/ (\E outcome \in DisconnectOutcomes : ExitRecv(outcome)) /\ UNCHANGED lib_vars
    \/ (\E exit \in Exits : RemoteExit(0, exit)) /\ UNCHANGED lib_vars
    \/ ConnectionLost(0) /\ UNCHANGED lib_vars
    \/ (\E chunk \in StdoutChunks : RemoteStdout(0, chunk)) /\ UNCHANGED lib_vars
    \/ (\E chunk \in StderrChunks : RemoteStderr(0, chunk)) /\ UNCHANGED lib_vars
    \/ (\E t \in PrintLoops : PrintLoopStdout(t)) /\ UNCHANGED lib_vars
    \/ (\E t \in PrintLoops : PrintLoopStderr(t)) /\ UNCHANGED lib_vars
    \/ (\E t \in PrintLoops : PrintLoopClosed(t)) /\ UNCHANGED lib_vars
    \/ TermcraftBg /\ UNCHANGED lib_vars
    \/ (\E name \in Names : TermcraftName(name)) /\ UNCHANGED lib_vars
    \/ (\E cmd \in Cmds, reset_ok \in BOOLEAN, send_ok \in BOOLEAN :
           TermcraftCmd(cmd, reset_ok, send_ok)) /\ UNCHANGED lib_vars
    \/ (\E reset_ok \in BOOLEAN : TermcraftExit(reset_ok)) /\ UNCHANGED lib_vars

SessionSpec == Init /\ [][SessionNext]_vars

\* The registry driven by arbitrary calls.
StableVecNext == SV_Next /\ UNCHANGED <<ssh_vars, key_vars, ed_vars, exp_vars, ctx_vars>>

StableVecSpec == Init /\ [][StableVecNext]_vars

\* The registry built From a collection at any time, then driven by calls.
FromNext ==
    \/ SV_Next /\ UNCHANGED <<ssh_vars, key_vars, ed_vars, exp_vars, ctx_vars>>
    \/ (\E items \in Collections : SV_From(items)) /\ UNCHANGED <<ssh_vars, key_vars, ed_vars, exp_vars, ctx_vars>>

FromSpec == Init /\ [][FromNext]_vars

\* One SshSession driven by arbitrary calls.
SshNext == Ssh_Next /\ UNCHANGED <<sv_vars, key_vars, ed_vars, exp_vars, ctx_vars>>

SshSpec == Init /\ [][SshNext]_vars

\* The line editor driven key by key.
EditorNext == Ed_Next /\ UNCHANGED <<sv_vars, ssh_vars, key_vars, exp_vars, ctx_vars>>

EditorSpec == Init /\ [][EditorNext]_vars

\* The command history filled turn by turn, past its capacity.
HistoryNext == (\E line \in TurnLines : Ed_Turn(line))
                   /\ UNCHANGED <<sv_vars, ssh_vars, key_vars, exp_vars, ctx_vars>>

HistorySpec == Init /\ [][HistoryNext]_vars

\* Texts expanded against Variable Stores.
ExpandNext == Exp_Next /\ UNCHANGED <<sv_vars, ssh_vars, key_vars, ed_vars, ctx_vars>>

ExpandSpec == Init /\ [][ExpandNext]_vars

\* expand call by call; a call that has started runs on.
ExpandRunNext ==
    \/ (ExpIdle /\ \E name \in VarNames, value \in RunValues : Run_Set(name, value))
          /\ UNCHANGED <<sv_vars, ssh_vars, key_vars, ed_vars, ctx_vars>>
    \/ (ExpIdle /\ \E input \in RunTexts : Run_Call(input))
          /\ UNCHANGED <<sv_vars, ssh_vars, key_vars, ed_vars, ctx_vars>>
    \/ Run_Step /\ UNCHANGED <<sv_vars, ssh_vars, key_vars, ed_vars, ctx_vars>>

ExpandRunSpec ==
    /\ Init
    /\ [][ExpandRunNext]_vars
    /\ WF_vars(Run_Step /\ UNCHANGED <<sv_vars, ssh_vars, key_vars, ed_vars, ctx_vars>>)

\* The sessions and the exits of their remote processes.  select! picks at
\* random among the branches that are ready, and the exit branch stays ready
\* while a notification waits: the exit branch is taken in the end, unless
\* the read loop returns another way.
ExitNext ==
    \/ StartSession(MaxSessions) /\ UNCHANGED lib_vars
    \/ (\E outcome \in ConnectOutcomes : Connect(outcome)) /\ UNCHANGED lib_vars
    \/ (\E index \in 0 .. MaxSessions - 1 : ResumeSession(Index(index))) /\ UNCHANGED lib_vars
    \/ KeyEsc /\ UNCHANGED lib_vars
    \/ (\E key \in Keys, io_ok \in BOOLEAN : KeyPress(key, io_ok)) /\ UNCHANGED lib_vars
    \/ (\E outcome \in DisconnectOutcomes : ExitRecv(outcome)) /\ UNCHANGED lib_vars
    \/ (\E index \in 0 .. MaxSessions - 1, exit \in Exits : RemoteExit(index, exit))
          /\ UNCHANGED lib_vars
    \/ TermcraftBg /\ UNCHANGED lib_vars
    \/ TermcraftExit(TRUE) /\ UNCHANGED lib_vars

ExitSpec ==
    /\ Init
    /\ [][ExitNext]_vars
    /\ WF_vars((\E outcome \in DisconnectOutcomes : ExitRecv(outcome)) /\ UNCHANGED lib_vars)

\* One session and its control mode, line by line.
TermcraftNext ==
    \/ StartSession(1) /\ UNCHANGED lib_vars
    \/ (\E outcome \in ConnectOutcomes : Connect(outcome)) /\ UNCHANGED lib_vars
    \/ (\E index \in 0 .. 1 : ResumeSession(Index(index))) /\ UNCHANGED lib_vars
    \/ KeyEsc /\ UNCHANGED lib_vars
    \/ (\E line \in TermLines : TermcraftLine(line))
          /\ UNCHANGED <<sv_vars, ssh_vars, key_vars, ed_vars, expand_call, exp_stack>>

TermcraftSpec == Init /\ [][TermcraftNext]_vars

\* One passthrough read loop driven by key events.
KeyNext == Key_Next /\ UNCHANGED <<sv_vars, ssh_vars, ed_vars, exp_vars, ctx_vars>>

KeySpec == Init /\ [][KeyNext]_vars

(***************************************************************************)
(* Properties                                                              *)
(***************************************************************************)
\* the index the contract of push promises: the smallest empty slot, else
\* the slot count
LowestFreedOrLen(sv) ==
    IF EmptyIndices(sv) # {} THEN Min(EmptyIndices(sv)) ELSE Len(sv.items)

\* C1: push returns the smallest freed index if an index is freed and the
\* slot count otherwise, and get of the returned index is the pushed item.
C1_PushLowestFreed ==
    [][last_call'.op = "push" =>
          /\ last_call'.ret = Some(LowestFreedOrLen(stable_vec))
          /\ StableVec_get(stable_vec', last_call'.ret[1]) = Some(last_call'.arg)]_vars

\* a push has taken the lower of two freed indices
C1_Witness ==
    /\ last_call.op = "push"
    /\ \E j \in EmptyIndices(stable_vec) : j > last_call.ret[1]

\* C2: a live index keeps its item through every call but remove of that
\* index, and push never returns an index that is live.
C2_StableIndex ==
    [][/\ \A i \in LiveIndices(stable_vec) :
             ~(last_call'.op = "remove" /\ last_call'.arg = i)
                => StableVec_get(stable_vec', i) = StableVec_get(stable_vec, i)
       /\ last_call'.op = "push" => last_call'.ret[1] \notin LiveIndices(stable_vec)]_vars

\* a push has reused slot 1 while slots 0 and 2 held their items
C2_Witness ==
    /\ last_call.op = "push"
    /\ last_call.ret = Some(1)
    /\ {0, 2} \subseteq LiveIndices(stable_vec)

\* no entry of the Name Index leads to the slot index
Unnamed(names, index) == \A n \in DOMAIN names : names[n] # index

\* C3: when start_read_loop returns an error, handle_session has disconnected
\* the session and removed it from the registry and the Name Index by the
\* time the error is returned.
C3_ErrorStillRemoves ==
    (pc = "rctf" /\ read_loop_ret.kind = "Err")
        => /\ StableVec_get(sessions, session_index) = None
           /\ Unnamed(named_sessions, session_index)

\* C4: whenever start_read_loop has returned, its print loop is cancelled and
\* joined: no print loop is alive, and none writes to the terminal, unless a
\* read loop is running.
C4_PrintLoopJoined ==
    /\ pc # "read_loop" => print_loops = {}
    /\ terminal # << >> => pc = "read_loop"

\* C5: every entry of the Name Index maps to a slot that holds a session.
C5_NameIndexLive ==
    \A n \in DOMAIN named_sessions :
        StableVec_get(sessions, named_sessions[n]) # None

\* C6: the step in which start_read_loop returns ControlModeRequested (Esc)
\* writes nothing on the transport and leaves the registry and the session as
\* they were, the session being registered and Connected.
C6_EscKeepsConnection ==
    [][(read_loop_ret.kind # "Termcraft" /\ read_loop_ret'.kind = "Termcraft")
          => /\ sessions' = sessions
             /\ StableVec_get(sessions', session_index) # None
             /\ StableVec_get(sessions', session_index)[1].status = "Connected"
             /\ wire' = << >>
             /\ pc' = "termcraft"]_vars

\* control mode has been entered on a connected session
C6_Witness ==
    /\ pc = "termcraft"
    /\ read_loop_ret.kind = "Termcraft"
    /\ Current.status = "Connected"

\* C7: start_read_loop returns RemoteExited exactly when it has consumed an
\* exit notification with status 0; a consumed notification with another
\* status or a signal makes it return an error that carries it.
C7_ExitReturn ==
    /\ read_loop_ret.kind = "Exit" <=> read_loop_ret.consumed = Some(Status(0))
    /\ (read_loop_ret.consumed # None /\ read_loop_ret.consumed # Some(Status(0)))
          => /\ read_loop_ret.kind = "Err"
             /\ read_loop_ret.exit = read_loop_ret.consumed

\* a read loop has returned RemoteExited
C7_Witness == read_loop_ret.kind = "Exit" /\ pc = "rctf"

\* C8: after start_read_loop has returned RemoteExited, the session is
\* disconnected and gone from the registry and the Name Index (so that a
\* resume by its index finds nothing).
C8_ExitRemoves ==
    (pc = "rctf" /\ read_loop_ret.kind = "Exit")
        => /\ StableVec_get(sessions, session_index) = None
           /\ Unnamed(named_sessions, session_index)

\* C9: a session starts Disconnected; it becomes Connected only by a connect
\* that succeeds and Disconnected again only by a disconnect that succeeds,
\* both of which have that effect; a failed connect leaves it Disconnected.
C9_StatusLifecycle ==
    /\ ssh.status = "Disconnected"
    /\ [][/\ (ssh.status = "Disconnected" /\ ssh'.status = "Connected")
                => (ssh_call'.op = "connect" /\ ssh_call'.ok)
          /\ (ssh.status = "Connected" /\ ssh'.status = "Disconnected")
                => (ssh_call'.op = "disconnect" /\ ssh_call'.ok)
          /\ (ssh_call'.op = "connect" /\ ssh_call'.ok) => ssh'.status = "Connected"
          /\ (ssh_call'.op = "disconnect" /\ ssh_call'.ok) => ssh'.status = "Disconnected"
          /\ (ssh_call'.op = "connect" /\ ~ssh_call'.ok /\ ssh.status = "Disconnected")
                => ssh'.status = "Disconnected"]_vars

\* a connected session has been disconnected
C9_Witness ==
    /\ ssh_call.op = "disconnect"
    /\ ssh_call.ok
    /\ ssh_call.data # << >>
    /\ ssh.status = "Disconnected"

\* the errors connect returns
ConnectErrors == ConnectOutcomes \ {"ok"}

\* C10: a start_session whose connect fails changes neither the registry nor
\* the Name Index nor next_index(), in none of its steps.
C10_FailedConnectNotRegistered ==
    [][(\/ pc = "rctf" /\ pc' = "connect"
        \/ pc = "connect" /\ pc' = "rctf" /\ result'.error \in ConnectErrors)
          => /\ sessions' = sessions
             /\ named_sessions' = named_sessions
             /\ StableVec_next_index(sessions') = StableVec_next_index(sessions)]_vars

\* a connect has failed while the registry held a session and a freed slot
C10_Witness ==
    /\ pc = "rctf"
    /\ result.error \in ConnectErrors
    /\ LiveIndices(sessions) # {}
    /\ EmptyIndices(sessions) # {}

\* the step in which handle_session handles TermcraftResponse::Cmd(cmd)
CmdStep(cmd) == \E reset_ok, send_ok \in BOOLEAN : TermcraftCmd(cmd, reset_ok, send_ok)

\* the session of the orchestration loop is registered and Connected after the step
StaysConnected ==
    /\ session_index' = session_index
    /\ StableVec_get(sessions', session_index) # None
    /\ StableVec_get(sessions', session_index)[1].status = "Connected"

\* the writes of reset_prompt and of send(cmd + "\n"), in that order
CmdWrites(index, cmd) == <<Write(index, <<ETX>>), Write(index, <<cmd, "\n">>)>>

BgStep == pc = "termcraft" /\ pc' = "rctf" /\ result' = Ok

\* C12: on Background the loop returns with nothing written on the transport
\* (no disconnect, reset_prompt or send) and the registry and Name Index as
\* they were, the session registered at its index and Connected; a resume by
\* the index of a registered, Connected session enters its read loop.
C12_BackgroundKeepsSession ==
    [][/\ BgStep => /\ wire' = << >>
                    /\ sessions' = sessions
                    /\ named_sessions' = named_sessions
                    /\ StaysConnected
       /\ \A i \in ConnectedIndices :
             ResumeSession(Index(i)) => /\ pc' = "read_loop"
                                        /\ session_index' = i
                                        /\ sessions' = sessions]_vars

\* a session has been sent to the background, registered and Connected
C12_Witness ==
    /\ pc = "rctf"
    /\ result = Ok
    /\ read_loop_ret.kind = "Termcraft"
    /\ session_index \in ConnectedIndices

\* C13: a print loop whose read loop is running writes to the local stdout
\* only what the remote end wrote on stdout, and to the local stderr only
\* what the remote end wrote on stderr.
C13_MirrorKeepsStreams ==
    \A k \in 1 .. Len(terminal) :
        terminal[k].attached =>
            /\ terminal[k].stream = "stdout" => terminal[k].data \in StdoutChunks
            /\ terminal[k].stream = "stderr" => terminal[k].data \in StderrChunks

\* the step in which handle_session leaves control mode through a completed
\* reset_prompt and re-enters the read loop
ResetStep == pc = "termcraft" /\ pc' = "read_loop"

\* the print loops whose read loop is running
Attached(tasks) == {t \in tasks : t.attached}

\* C14: when reset_prompt has completed, the output that arrived before is
\* marked as seen for the session and for the print loop of the next read
\* loop; and a running read loop's print loop writes a stream to the terminal
\* only when output has arrived on it since the last reset_prompt.
C14_ResetPromptDiscards ==
    /\ [][ResetStep =>
             /\ ~StableVec_get(sessions', session_index)[1].rx_stdout_changed
             /\ ~StableVec_get(sessions', session_index)[1].rx_stderr_changed
             /\ \A t \in Attached(print_loops') :
                    ~t.stdout_changed /\ ~t.stderr_changed]_vars
    /\ [](\A k \in 1 .. Len(terminal) :
             terminal[k].attached =>
                 /\ terminal[k].stream = "stdout" => Current.rx_stdout_changed
                 /\ terminal[k].stream = "stderr" => Current.rx_stderr_changed)
    /\ [](\A t \in Attached(print_loops) :
             /\ t.stdout_changed => Current.rx_stdout_changed
             /\ t.stderr_changed => Current.rx_stderr_changed)

\* output arrived before a reset_prompt completed, and the print loop of the
\* read loop entered after it has nothing to write
C14_Witness ==
    /\ pc = "read_loop"
    /\ wire # << >>
    /\ wire[1].data = <<ETX>>
    /\ Current.stdout \in StdoutChunks
    /\ Current.stderr \in StderrChunks
    /\ \E t \in Attached(print_loops) : ~t.stdout_changed /\ ~t.stderr_changed

\* the bytes C15 gives for a key event
C15_Mapping(key) ==
    IF key.kind = "Release" THEN << >>
    ELSE CASE key.code = "Up"        -> <<27, 91, 65>>
           [] key.code = "Down"      -> <<27, 91, 66>>
           [] key.code = "Right"     -> <<27, 91, 67>>
           [] key.code = "Left"      -> <<27, 91, 68>>
           [] key.code = "Backspace" -> <<8>>
           [] key.code = "Tab"       -> <<9>>
           [] key.code = "Enter"     -> <<10>>
           [] key.code \in {"a", "c", "d"} ->
                 IF key.modifiers \in {"NONE", "SHIFT"} THEN <<CharByte(key.code)>>
                 ELSE IF key.code = "c" /\ key.modifiers = "CONTROL" THEN <<3>>
                 ELSE IF key.code = "d" /\ key.modifiers = "CONTROL" THEN <<4>>
                 ELSE << >>
           [] OTHER                  -> << >>

RECURSIVE C15_Concat(_)
\* the concatenation of the mappings of a sequence of key events
C15_Concat(keys) ==
    IF keys = << >> THEN << >>
    ELSE C15_Mapping(Head(keys)) \o C15_Concat(Tail(keys))

C16_GetTotal ==
    [][last_call'.op \in {"get", "get_mut"} =>
          /\ last_call'.ret = IF last_call'.arg \in LiveIndices(stable_vec)
                              THEN stable_vec.items[last_call'.arg + 1]
                              ELSE None
          /\ last_call'.arg \in LiveIndices(stable_vec) => last_call'.ret # None
          /\ LiveIndices(stable_vec') = LiveIndices(stable_vec)
          /\ EmptyIndices(stable_vec') = EmptyIndices(stable_vec)
          /\ stable_vec' = stable_vec]_vars

\* get has been called on a freed index past which a slot is live
C16_Witness ==
    /\ last_call.op = "get"
    /\ last_call.ret = None
    /\ last_call.arg \in EmptyIndices(stable_vec)
    /\ \E j \in LiveIndices(stable_vec) : j > last_call.arg

\* C17: remove(i) of a live index returns its item and frees i; remove(i) of
\* an out-of-range or freed index returns none and leaves the registry as it
\* was; no index is held twice by the freed-index heap.
C17_RemoveOnce ==
    [][last_call'.op = "remove" =>
          /\ last_call'.arg \in LiveIndices(stable_vec) =>
                /\ last_call'.ret = stable_vec.items[last_call'.arg + 1]
                /\ last_call'.ret # None
                /\ EmptyIndices(stable_vec') = EmptyIndices(stable_vec) \cup {last_call'.arg}
                /\ LiveIndices(stable_vec') = LiveIndices(stable_vec) \ {last_call'.arg}
          /\ last_call'.arg \notin LiveIndices(stable_vec) =>
                /\ last_call'.ret = None
                /\ stable_vec' = stable_vec
          /\ Len(stable_vec'.available_indices) = Cardinality(EmptyIndices(stable_vec'))
          /\ \A i \in EmptyIndices(stable_vec') :
                \E k \in 1 .. Len(stable_vec'.available_indices) :
                    stable_vec'.available_indices[k] = i]_vars

\* remove has been called on an index that was already freed
C17_Witness ==
    /\ last_call.op = "remove"
    /\ last_call.ret = None
    /\ last_call.arg \in EmptyIndices(stable_vec)

\* C18: next_index() leaves the registry as it is, and a push returns the
\* index next_index() gives in the state it is called in; in particular the
\* push that follows a next_index() returns what that call returned.
C18_NextIndexPreview ==
    [][/\ last_call'.op = "next_index" =>
             /\ stable_vec' = stable_vec
             /\ last_call'.ret = Some(StableVec_next_index(stable_vec))
       /\ last_call'.op = "push" =>
             last_call'.ret = Some(StableVec_next_index(stable_vec))
       /\ (last_call.op = "next_index" /\ last_call'.op = "push") =>
             last_call'.ret = last_call.ret]_vars

\* next_index() has previewed a freed index below the slot count
C18_Witness ==
    /\ last_call.op = "next_index"
    /\ last_call.ret # None
    /\ last_call.ret[1] + 1 < Len(stable_vec.items)

\* C19: no call on the registry panics, and every index held by the
\* freed-index heap is the index of an empty slot of the slot vector.
C19_NoPanic ==
    /\ ~last_call.panic
    /\ \A k \in 1 .. Len(stable_vec.available_indices) :
          /\ stable_vec.available_indices[k] < Len(stable_vec.items)
          /\ stable_vec.items[stable_vec.available_indices[k] + 1] = None

\* a push has taken the last freed index, a slot below the end of a slot
\* vector of full length
C19_Witness ==
    /\ last_call.op = "push"
    /\ last_call.ret[1] + 1 < Len(stable_vec.items)
    /\ Len(stable_vec.items) = MaxSlots
    /\ stable_vec.available_indices = << >>

\* C20: the registry built From a sequence of items equals (PartialEq) the
\* registry obtained by pushing the items in order on an empty registry, and
\* holds item k of the sequence at index k - 1.
C20_FromIsPushAll ==
    last_call.op = "from" =>
        /\ StableVec_eq(stable_vec, PushAll(last_call.arg))
        /\ Len(stable_vec.items) = Len(last_call.arg)
        /\ \A k \in 1 .. Len(last_call.arg) :
              StableVec_get(stable_vec, k - 1) = Some(last_call.arg[k])

\* a registry has been built From a sequence of different items
C20_Witness ==
    /\ last_call.op = "from"
    /\ Len(last_call.arg) >= 2
    /\ last_call.arg[1] # last_call.arg[2]

\* C21: send on a Disconnected session fails, writes nothing and leaves the
\* session Disconnected; send on a Connected session writes exactly the bytes
\* it is given (or returns the error of the channel write, nothing written).
C21_SendNeedsConnection ==
    [][ssh_call'.op = "send" =>
          /\ ssh'.status = ssh.status
          /\ ssh.status = "Disconnected" =>
                /\ ~ssh_call'.ok
                /\ ssh_call'.error = "not_connected"
                /\ ssh_call'.data = << >>
          /\ ssh.status = "Connected" =>
                /\ ssh_call'.ok \/ (ssh_call'.error = "channel_data" /\ ssh_call'.data = << >>)
                /\ \A data \in Payloads : Ssh_Send(data, TRUE) =>
                       (ssh_call'.ok /\ ssh_call'.data = <<data>>)]_vars

\* send has failed on a session that was connected and then disconnected
C21_Witness ==
    /\ ssh_call.op = "send"
    /\ ssh_call.error = "not_connected"
    /\ ssh.status = "Disconnected"
    /\ ssh.disconnect_sent

\* C22: disconnect on a Disconnected session succeeds, sends nothing and
\* changes nothing; and a disconnect that succeeds leaves a session on which
\* another disconnect succeeds and changes nothing (idempotence).
C22_DisconnectIdempotent ==
    /\ [][(ssh_call'.op = "disconnect" /\ ssh.status = "Disconnected") =>
             /\ ssh_call'.ok
             /\ ssh_call'.data = << >>
             /\ ssh' = ssh]_vars
    /\ [](\A o1, o2 \in DisconnectOutcomes :
             LET once == SshSession_disconnect(ssh, o1)
             IN  once.ok => SshSession_disconnect(once.session, o2)
                                = [session |-> once.session, ok |-> TRUE, error |-> ""])

\* disconnect has been called a second time on a session it had closed
C22_Witness ==
    /\ ssh_call.op = "disconnect"
    /\ ssh_call.ok
    /\ ssh_call.data = << >>
    /\ ssh.status = "Disconnected"
    /\ ssh.disconnect_sent

\* the last n elements of a sequence
LastN(seq, n) == SubSeq(seq, Len(seq) - n + 1, Len(seq))

\* C23: the history holds exactly the last min(N, 100) of the N lines
\* committed so far, in commit order; it never holds more than 100 lines;
\* a commit at capacity evicts the oldest entry and nothing else.
C23_HistoryLastCommitted ==
    /\ [](/\ Len(history) <= MAX_HISTORY_SIZE
          /\ history = LastN(committed, Min({Len(committed), MAX_HISTORY_SIZE})))
    /\ [][(Len(committed') > Len(committed) /\ Len(history) = MAX_HISTORY_SIZE) =>
             history' = Append(Tail(history), committed'[Len(committed')])]_vars

\* more lines than the capacity have been committed and the marked line, the
\* oldest, is no longer in the history
C23_Witness ==
    /\ Len(committed) > MAX_HISTORY_SIZE
    /\ committed[1] = <<"b">>
    /\ Len(history) = MAX_HISTORY_SIZE
    /\ \A i \in 1..Len(history) : history[i] = <<"a">>

\* C24: on the live line, with a history that is not empty, Up followed by
\* Down gives back the buffer and the column there were before.
C24_UpDownRestores ==
    (ed_pc = "editing" /\ history # << >> /\ history_index = Len(history)) =>
        LET back == KeyDown(KeyUp(Editor))
        IN  /\ back.history_index = history_index
            /\ EdCmd(back) = Cmd
            /\ back.column = column

\* C25: Esc and Ctrl-C end the turn and leave the history as it was, edits
\* made to recalled entries included; Esc returns the line "exit" and Ctrl-C
\* returns no line.
C25_EscCtrlCKeepHistory ==
    /\ [][(Ed_Esc \/ Ed_CtrlC) =>
             (history' = history /\ committed' = committed /\ ed_pc' = "idle")]_vars
    /\ [][Ed_Esc => ed_ret' = EdRet(Some(ExitLine))]_vars
    /\ [][Ed_CtrlC => ed_ret' = EdRet(None)]_vars
    /\ [](ed_pc = "editing" =>
             EscReturn(history, Editor).ret # CtrlCReturn(history, Editor).ret)

\* Esc has just ended a turn in which a recalled entry was edited: the
\* history still holds the entry as it was committed
C25_Witness ==
    /\ ed_pc = "idle"
    /\ ed_ret = EdRet(Some(ExitLine))
    /\ history # << >>
    /\ history_clone # history
    /\ history = committed

\* the two forms of a reference to name
RefForms(name) == {<<"#">> \o name, <<"#", "{">> \o name \o <<"}">>}

\* C26: in a text without backslashes, a reference to a name of the Variable
\* Store that no marker precedes is replaced by the expansion of the value of
\* the name; the text before it stays as it is and the text after it is
\* expanded in the same way.
C26_SubstitutesValue ==
    expand_call.op = "expand" =>
        LET text == expand_call.input
        IN  (\A k \in 1..Len(text) : text[k] # BS) =>
                \A i \in 1..Len(text), name \in DOMAIN variables :
                    \A form \in RefForms(name) :
                        LET end    == i + Len(form) - 1
                            before == SubSeq(text, 1, i - 1)
                            after  == SubSeq(text, end + 1, Len(text))
                            value  == expand(variables, variables[name])
                            rest   == expand(variables, after)
                        IN  (/\ end <= Len(text)
                             /\ SubSeq(text, i, end) = form
                             /\ \A k \in 1..(i - 1) : text[k] # "#"
                             /\ form[2] # "{" => (after = << >> \/ after[1] \notin WordChars)
                             /\ value.ok
                             /\ rest.ok)
                            => expand_call.res = ExpOk(before \o value.out \o rest.out)

\* C27: a reference in braces to x with one backslash before it expands to
\* the reference without the backslash, whatever the Variable Store holds.
C27_EscapedIsLiteral ==
    (expand_call.op = "expand" /\ expand_call.input = <<BS, "#", "{", "x", "}">>) =>
        expand_call.res = ExpOk(<<"#", "{", "x", "}">>)

\* the characters of a text
Range(text) == {text[i] : i \in 1..Len(text)}

\* C28: with x bound to "1", the text made of k backslashes and #x has its
\* reference substituted when k is even and left alone when k is odd.
C28_OddSkipsEvenSubstitutes ==
    (/\ expand_call.op = "expand"
     /\ <<"x">> \in DOMAIN variables
     /\ variables[<<"x">>] = <<"1">>) =>
        \A k \in 0..Len(expand_call.input) :
            expand_call.input = Slashes(k) \o <<"#", "x">> =>
                /\ expand_call.res.ok
                /\ "1" \in Range(expand_call.res.out) <=> k % 2 = 0
                /\ "#" \in Range(expand_call.res.out) <=> k % 2 = 1

RECURSIVE BackslashesBefore(_, _)
\* the backslashes in a row that end just before index i
BackslashesBefore(text, i) ==
    IF i > 1 /\ text[i - 1] = BS THEN 1 + BackslashesBefore(text, i - 1) ELSE 0

\* the names of the references of a text that an even number of backslashes
\* precedes
UnescapedReferences(text) ==
    {ReferenceAt(text, i)[1].name :
        i \in {j \in 1..Len(text) : /\ ReferenceAt(text, j) # None
                                    /\ BackslashesBefore(text, j) % 2 = 0}}

RECURSIVE ReachesAbsent(_, _)
\* the text, or a value reached from it, refers to a name that is absent
ReachesAbsent(store, text) ==
    \E name \in UnescapedReferences(text) :
        \/ name \notin DOMAIN store
        \/ ReachesAbsent(store, store[name])

RECURSIVE LeadingBackslashes(_)
\* the backslashes a text starts with
LeadingBackslashes(text) ==
    IF text # << >> /\ Head(text) = BS THEN 1 + LeadingBackslashes(Tail(text)) ELSE 0

RECURSIVE HalveRuns(_)
\* every run of k backslashes becomes a run of k / 2 backslashes, rounded up
HalveRuns(text) ==
    IF text = << >>
    THEN << >>
    ELSE IF Head(text) = BS
         THEN LET k == LeadingBackslashes(text)
              IN  Slashes((k + 1) \div 2) \o HalveRuns(SubSeq(text, k + 1, Len(text)))
         ELSE <<Head(text)>> \o HalveRuns(Tail(text))

\* C30: on a text without markers and without the sequences \n, \r and \t,
\* expand succeeds and returns the text with the pairs of backslashes, taken
\* from the left, each replaced by one backslash: x\\x becomes x\x.
C30_CollapsesDoubled ==
    (/\ expand_call.op = "expand"
     /\ "#" \notin Range(expand_call.input)
     /\ \A i \in 1..(Len(expand_call.input) - 1) :
            ~(expand_call.input[i] = BS /\ expand_call.input[i + 1] \in {"n", "r", "t"})) =>
        /\ expand_call.res = ExpOk(HalveRuns(expand_call.input))
        /\ expand_call.input = <<"x", BS, BS, "x">> => expand_call.res.out = <<"x", BS, "x">>

\* three backslashes in a row have become two
C30_Witness ==
    /\ expand_call.op = "expand"
    /\ expand_call.input = <<BS, BS, BS, "x">>
    /\ expand_call.res = ExpOk(<<BS, BS, "x">>)

\* C35: while a line is edited the history cursor is between 0 and the
\* history length; Up at 0 and Down at the history length leave the buffers,
\* the column and the cursor as they are.
C35_CursorInRange ==
    ed_pc = "editing" =>
        /\ history_index \in 0..Len(history)
        /\ KeyUp(Editor).history_index \in 0..Len(history)
        /\ KeyDown(Editor).history_index \in 0..Len(history)
        /\ history_index = 0 => KeyUp(Editor) = Editor
        /\ history_index = Len(history) => KeyDown(Editor) = Editor

\* Up has brought the cursor to the oldest entry, which is not empty, and
\* the live line that was put aside is not empty either
C35_Witness ==
    /\ ed_pc = "editing"
    /\ history # << >>
    /\ history_index = 0
    /\ Cmd # << >>
    /\ current_cmd # << >>

C37_EditedRecallAppended ==
    /\ [][Ed_Enter =>
             history' = LastN(Append(history, Cmd),
                              Min({Len(history) + 1, MAX_HISTORY_SIZE}))]_vars
    /\ [][(ed_pc = "editing" /\ ed_pc' = "editing") => history' = history]_vars

\* the one entry was recalled and edited, and Enter has appended the edited
\* text; the entry is as it was committed
C37_Witness ==
    /\ ed_pc = "idle"
    /\ Len(history) = 2
    /\ history_index = 0
    /\ history[1] # << >>
    /\ history_clone[1] # history[1]
    /\ history[2] = history_clone[1]
    /\ committed = history

\* the slots whose session has the name n
NamedLive(n) == {i \in LiveIndices(sessions) : sessions.items[i + 1][1].name = n}

\* C33: a resume by a name that exactly one registered session has goes to
\* handle_session with the index of the slot of that session.
C33_ResumeByName ==
    [][\A n \in Names :
           (ResumeSession(Name(n)) /\ Cardinality(NamedLive(n)) = 1) =>
               session_index' \in NamedLive(n)]_vars

\* C39: every registered session holds, as its index, the index of its slot;
\* the push of start_session fills the slot whose index next_index() gave
\* before connect, which is the index the new session holds.
C39_IndexIsSlot ==
    /\ [](\A i \in LiveIndices(sessions) : sessions.items[i + 1][1].index = i)
    /\ [][((\E outcome \in ConnectOutcomes : Connect(outcome)) /\ sessions' # sessions) =>
             /\ pending[1].index = session_index
             /\ LiveIndices(sessions') = LiveIndices(sessions) \cup {session_index}
             /\ session_index \notin LiveIndices(sessions)
             /\ StableVec_push(sessions, pending[1]).index = session_index]_vars

\* two sessions are registered and slot 0, which a name of the Name Index
\* still points to, holds a session that was started after that name was given
C39_Witness ==
    /\ LiveIndices(sessions) = {0, 1}
    /\ \E n \in DOMAIN named_sessions :
           /\ named_sessions[n] = 0
           /\ sessions.items[1][1].name # n

\* C40: the indices recorded as available are the empty slots, each recorded
\* once, and no call makes the slots fewer.
C40_AvailableAreEmpty ==
    /\ [](/\ {stable_vec.available_indices[k] :
                 k \in 1..Len(stable_vec.available_indices)} = EmptyIndices(stable_vec)
          /\ Len(stable_vec.available_indices) = Cardinality(EmptyIndices(stable_vec)))
    /\ [][Len(stable_vec'.items) >= Len(stable_vec.items)]_vars

\* two slots are empty and recorded, and a slot above them holds an item
C40_Witness ==
    /\ stable_vec.available_indices = <<0, 1>>
    /\ Len(stable_vec.items) = 3
    /\ stable_vec.items[3] # None
    /\ last_call.op = "remove"

\* the characters of a write of a command text and what follows it
CmdBytes(data) == Head(data) \o Tail(data)

\* C31: in control mode, printf with a format string that has no variable
\* reference sends exactly the literal text of the format string (the text
\* as typed, or with its \n, \r and \t read as the characters they name)
C31_PrintfSendsLiteral ==
    [][\A f \in PrintfFormats :
           (TermcraftLine(PrintfLine(f)) /\ "#" \notin Range(f)) =>
               /\ Len(wire') = 2
               /\ CmdBytes(wire'[2].data) \in {f, SpecialChars(f)}]_vars

\* the lines that do not parse, or that refer to a variable that is not
\* defined
BadLines(store) ==
    {<<"bogus">>, <<"printf">>, <<"printf", " ", "\"", "l", "s">>}
        \cup (IF <<"n">> \in DOMAIN store THEN {} ELSE {PrintfLine(<<"#", "n">>)})
        \cup (IF <<"x">> \in DOMAIN store THEN {}
              ELSE {PrintfLine(<<"l", "s", " ", "#", "x">>), <<"printf", " ", BS, "#", "x">>})

\* C32: in control mode, a line that does not parse (an unknown command, an
\* invalid quoting) or that refers to an undefined variable is reported and
\* the prompt is shown again: start_termcraft does not return, and the
\* selected session stays registered, connected and named as it was
C32_BadInputReprompts ==
    [][\A line \in TermLines :
           (/\ TermcraftLine(line)
            /\ \/ line \in BadLines(variables)
               \/ termcraft_call'.out \in {"invalid_quoting", "clap", "undefined",
                                           "printf_undefined"}) =>
               /\ pc' = "termcraft"
               /\ termcraft_call'.out \notin {"Bg", "Name", "Printf", "Exit", "Var"}
               /\ session_index' = session_index
               /\ sessions' = sessions
               /\ named_sessions' = named_sessions
               /\ Current.status = "Connected"
               /\ wire' = << >>]_vars

C32_Witness ==
    /\ pc = "termcraft"
    /\ termcraft_call.line = <<"printf", " ", BS, "#", "x">>
    /\ termcraft_call.out = "printf_undefined"
    /\ Current.name = "a"
    /\ <<"n">> \in DOMAIN variables

\* a variable is being expanded inside its own expansion
Reentered(stack) ==
    \E i, j \in 1..Len(stack) : i < j /\ stack[i].name # None /\ stack[i].name = stack[j].name

\* C34: expand returns for every input when no value leads back to its own
\* variable, and does not return once the text expanded has reached a
\* variable that refers to itself: with x = "#x", expand("#x") calls itself
\* deeper at every step and never returns
C34_ReturnsUnlessSelfReference ==
    /\ (expand_call.op = "running" /\ Acyclic(variables)) ~> expand_call.op = "expand"
    /\ [](Acyclic(variables) => Len(exp_stack) <= Cardinality(DOMAIN variables) + 1)
    /\ [][Reentered(exp_stack) =>
              /\ expand_call'.op = "running"
              /\ Len(exp_stack') = Len(exp_stack) + 1]_vars
    /\ []((/\ <<"x">> \in DOMAIN variables
           /\ variables[<<"x">>] = <<"#", "x">>
           /\ expand_call.input = <<"#", "x">>) =>
              /\ expand_call.op # "expand"
              /\ \A k \in 1..Len(exp_stack) : k > 1 => exp_stack[k].name = Some(<<"x">>))

C34_Witness ==
    /\ variables = VariablesInsert(<< >>, <<"x">>, <<"#", "x">>)
    /\ expand_call.op = "running"
    /\ expand_call.input = <<"#", "x">>
    /\ Len(exp_stack) = MaxDepth
    /\ Reentered(exp_stack)

\* the notification that waits in the exit channel of the session in slot i
Waiting(sv, i) == IF i \in LiveIndices(sv) THEN sv.items[i + 1][1].rx_exit ELSE << >>

\* C38: an exit notification the transport delivered is never lost: it waits
\* in the channel of its session, in the read loop, in control mode and in
\* the background, until a read loop on that session takes it; and a read
\* loop that runs while a notification waits returns in the end with the
\* clean exit (status 0) or the error that carries the exit, unless Escape,
\* a key-stream error or a channel write error returns it first
C38_ExitNeverLost ==
    /\ [][\A i \in 0 .. MaxSessions - 1 :
              Waiting(sessions, i) # << >> =>
                  \/ Waiting(sessions', i) = Waiting(sessions, i)
                  \/ /\ pc = "read_loop" /\ session_index = i
                     /\ read_loop_ret'.consumed = Waiting(sessions, i)
                     /\ read_loop_ret' = [ExitBranch(Waiting(sessions, i)) EXCEPT
                                             !.consumed = Waiting(sessions, i)]
                  \/ /\ pc = "termcraft" /\ session_index = i
                     /\ i \notin LiveIndices(sessions')]_vars
    /\ \A e \in Exits :
           (pc = "read_loop" /\ Current.rx_exit = <<e>>) ~>
               \/ pc # "read_loop" /\ read_loop_ret.consumed = <<e>>
                                   /\ read_loop_ret.kind \in {"Exit", "Err"}
               \/ pc # "read_loop" /\ read_loop_ret.kind = "Termcraft"
               \/ pc # "read_loop" /\ read_loop_ret.error \in {"channel_data", "events"}

C38_Witness ==
    /\ pc = "rctf"
    /\ read_loop_ret.kind = "Err"
    /\ read_loop_ret.consumed = <<Signal("TERM")>>
    /\ Waiting(sessions, 1) = <<Status(0)>>
    /\ Waiting(sessions, 0) = << >>
    /\ 0 \in LiveIndices(sessions)

====
